---------------------------- MODULE Spec2Model ----------------------------
(***************************************************************************)
(* hbak: distributed incremental snapshot replication.                     *)
(*                                                                         *)
(* The module models                                                       *)
(*   - the mutual authentication handshake of hbak_common/src/conn.rs      *)
(*     (AuthConn::secure_stream, AuthServ::secure_stream) on a network     *)
(*     whose plaintext handshake messages an attacker may replace.         *)
(***************************************************************************)
EXTENDS Integers, Sequences, FiniteSets, TLC

(***************************************************************************)
(* Bounds of the model.                                                    *)
(***************************************************************************)
\* How many handshake messages the network attacker may replace.
MaxTamper == 1

(***************************************************************************)
(* Symbolic cryptography (hbak_common/src/system.rs).  Hashes are free     *)
(* constructors: two hashes are equal iff their inputs are equal.          *)
(***************************************************************************)
hash_argon2id(salt, passphrase) == <<"argon2id", salt, passphrase>>

hash_hmac(secret, data) == <<"hmac", secret, data>>

\* A derivation that salts the hash but forgets the passphrase.
derive_key_NoPass(verifier, passphrase) ==
    hash_hmac(hash_argon2id(verifier, verifier), verifier)

derive_key(verifier, passphrase) ==
    hash_hmac(hash_argon2id(verifier, passphrase), verifier)

\* subtle::ConstantTimeEq::ct_eq on two proofs (conn.rs 133, 246).
ct_eq_Always(a, b) == TRUE

ct_eq(a, b) == a = b

\* Values random_bytes may return (one honest draw per use) and the values
\* an attacker may put in their place.
Challenges == {"Cc", "Cs", "Cx"}
Nonces == {"N", "Nx"}
Verifiers == {"v1", "vx"}
Passphrases == {"good", "wrong"}
NodeNames == {"A", "X"}

\* The server's auth storage (NodeConfig.auth): one grant, for node "A".
Grant == [node_name |-> "A", verifier |-> "v1", key |-> derive_key("v1", "good")]

auth_storage == <<Grant>>

Keys == {derive_key(v, p) : v \in Verifiers, p \in Passphrases}
Proofs == {hash_hmac(k, c) : k \in Keys, c \in Challenges}

NoKey == derive_key("", "")
NoProof == hash_hmac(NoKey, "")

RemoteErrors == {"AccessDenied", "Unauthorized", "Immutable", "IllegalTransition",
                 "AlreadyStreaming", "NotStreaming", "RxError"}

(***************************************************************************)
(* CryptoMessage (hbak_common/src/message.rs).  One record shape for all   *)
(* variants; err = "" stands for Ok.                                       *)
(***************************************************************************)
CMsg(type, err, node_name, challenge, nonce, verifier, proof) ==
    [type |-> type, err |-> err, node_name |-> node_name, challenge |-> challenge,
     nonce |-> nonce, verifier |-> verifier, proof |-> proof]

Hello(node_name, challenge, nonce) ==
    CMsg("Hello", "", node_name, challenge, nonce, "", NoProof)

ServerAuthOk(verifier, challenge, proof) ==
    CMsg("ServerAuth", "", "", challenge, "", verifier, proof)

ServerAuthErr(e) == CMsg("ServerAuth", e, "", "", "", "", NoProof)

ClientAuthOk(proof) == CMsg("ClientAuth", "", "", "", "", "", proof)

ClientAuthErr(e) == CMsg("ClientAuth", e, "", "", "", "", NoProof)

EncryptOk == CMsg("Encrypt", "", "", "", "", "", NoProof)

EncryptErr(e) == CMsg("Encrypt", e, "", "", "", "", NoProof)

CryptoError(e) == CMsg("Error", e, "", "", "", "", NoProof)

\* Everything the attacker can put on the wire during the handshake.
CryptoMessages ==
    {Hello(n, c, x) : n \in NodeNames, c \in {"Cc", "Cx"}, x \in Nonces}
    \cup {ServerAuthOk(v, c, p) : v \in Verifiers, c \in {"Cs", "Cx"}, p \in Proofs}
    \cup {ServerAuthErr(e) : e \in {"AccessDenied", "IllegalTransition"}}
    \cup {ClientAuthOk(p) : p \in Proofs}
    \cup {ClientAuthErr(e) : e \in {"AccessDenied", "IllegalTransition"}}
    \cup {EncryptOk}
    \cup {EncryptErr(e) : e \in {"AccessDenied", "IllegalTransition"}}
    \cup {CryptoError("IllegalTransition")}

VARIABLES
    authConn,   \* the client's AuthConn::secure_stream: pc and locals
    authServ,   \* the server's AuthServ::secure_stream: pc and locals
    c2s,        \* bytes in flight client -> server, as a sequence of messages
    s2c,        \* bytes in flight server -> client
    sent,       \* per side, every message the side itself has written
    rcvd,       \* per side, every handshake message recv_message has returned
    conn,       \* per side, the StreamConn built by try_from_conn (or none)
    tampered,   \* number of messages the attacker has replaced
    \* --- the streaming cipher (stream.rs) ---
    plain,      \* the plaintext the inner reader of the SnapshotStream yields
    sstream,    \* the SnapshotStream: inner position, cipher, buf
    wire,       \* every byte SnapshotStream::read has returned so far
    input,      \* the bytes that are written into the RecoveryStream
    fed,        \* how many bytes of input have been written so far
    rstream,    \* the RecoveryStream: closed, cipher, buf, inner writer
    cphase,     \* "encrypt", "cut", "feed" or "closed"
    rresult,    \* what write and close have returned so far
    \* --- the stream session (conn.rs 282-558) and its callers ---
    sess,       \* per endpoint: the thread that calls meta_sync and data_sync
    tx,         \* per endpoint: the transmit thread of data_sync
    rx,         \* per endpoint: the receive thread of data_sync and its sink
    start_streaming, \* per endpoint: the flag the receive thread sets on Stream
    local_done, \* per endpoint: the local_done mutex
    chan,       \* per endpoint: sealed frames in flight towards it
    aead,       \* per endpoint: counters of its encryptor and decryptor
    pend,       \* per endpoint and thread: a frame sealed but not yet written
    fs,         \* per node: the backup directory and the files in it
    hist,       \* per endpoint: what has been received relative to Done
    injected,   \* whether a peer has left the protocol with a message of its own
    \* --- the catalogue (proto.rs) and the callers' plans ---
    snaps,      \* per node: the snapshots in its snapshot directory
    now,        \* the clock (Utc::now), in seconds
    call,       \* the last call of a planner or parser: its input and result
    \* --- the daemon (hbakd main.rs 97-159) ---
    daemon,     \* serve: its position, the flags and the handler threads
    \* --- the reading half of a StreamConn, byte by byte (conn.rs 316-326) ---
    stream_read \* the socket, the running deserialize_from and the decryptor

authVars == <<authConn, authServ, c2s, s2c, sent, rcvd, conn, tampered>>
cryptoVars == <<plain, sstream, wire, input, fed, rstream, cphase, rresult>>
syncVars == <<sess, tx, rx, start_streaming, local_done, chan, aead, pend,
              fs, hist, injected>>
catVars == <<snaps, now, call>>
vars == <<authVars, cryptoVars, syncVars, catVars, daemon, stream_read>>

nonAuth == <<cryptoVars, syncVars, catVars, daemon, stream_read>>
nonCrypto == <<authVars, syncVars, catVars, daemon, stream_read>>
nonSync == <<authVars, cryptoVars, catVars, daemon, stream_read>>
nonCat == <<authVars, cryptoVars, sess, tx, rx, start_streaming, local_done,
            chan, aead, pend, hist, injected, daemon, stream_read>>
nonDaemon == <<authVars, cryptoVars, syncVars, catVars, stream_read>>

Sides == {"client", "server"}

\* No StreamConn has been constructed: encryptor and decryptor do not exist.
NoConn == [init |-> FALSE, key |-> NoKey, nonce |-> ""]

\* StreamConn::try_from_conn: encryptor and decryptor both start from (key, nonce).
try_from_conn(key, nonce) == [init |-> TRUE, key |-> key, nonce |-> nonce]

InitAuth ==
    /\ \E n \in NodeNames, p \in Passphrases :
          authConn = [pc |-> "hello", node_name |-> n, passphrase |-> p,
                      challenge |-> "Cc", nonce |-> "N", key |-> NoKey,
                      result |-> "running"]
    /\ authServ = [pc |-> "recv_hello", challenge |-> "Cs", nonce |-> "",
                   key |-> NoKey, client_proof |-> NoProof, remote_node_name |-> "",
                   result |-> "running"]
    /\ c2s = <<>>
    /\ s2c = <<>>
    /\ sent = [s \in Sides |-> <<>>]
    /\ rcvd = [s \in Sides |-> <<>>]
    /\ conn = [s \in Sides |-> NoConn]
    /\ tampered = 0

\* AuthConn::send_message / AuthServ::send_message.
ClientSend(m) ==
    /\ c2s' = Append(c2s, m)
    /\ sent' = [sent EXCEPT !["client"] = Append(@, m)]

ServerSend(m) ==
    /\ s2c' = Append(s2c, m)
    /\ sent' = [sent EXCEPT !["server"] = Append(@, m)]

(***************************************************************************)
(* AuthConn::secure_stream (conn.rs 108-164).                              *)
(***************************************************************************)
\* Lines 116-124: draw challenge and nonce, send Hello.
ClientHello ==
    /\ authConn.pc = "hello"
    /\ ClientSend(Hello(authConn.node_name, authConn.challenge, authConn.nonce))
    /\ authConn' = [authConn EXCEPT !.pc = "recv_server_auth"]
    /\ UNCHANGED <<authServ, s2c, rcvd, conn, tampered>>
    /\ UNCHANGED nonAuth

\* Lines 126-147: first recv_message and its match.
ClientRecvServerAuth ==
    /\ authConn.pc = "recv_server_auth"
    /\ s2c # <<>>
    /\ LET m == Head(s2c)
           key == derive_key(m.verifier, authConn.passphrase)
           server_proof == hash_hmac(key, authConn.challenge)
       IN  /\ s2c' = Tail(s2c)
           /\ rcvd' = [rcvd EXCEPT !["client"] = Append(@, m)]
           /\ IF m.type = "ServerAuth"
              THEN IF m.err # ""
                   THEN \* server_auth? propagates the remote error
                        /\ authConn' = [authConn EXCEPT !.pc = "done",
                                            !.result = "RemoteError(" \o m.err \o ")"]
                        /\ UNCHANGED <<c2s, sent>>
                   ELSE IF ct_eq(m.proof, server_proof)
                        THEN /\ ClientSend(ClientAuthOk(hash_hmac(key, m.challenge)))
                             /\ authConn' = [authConn EXCEPT !.pc = "recv_encrypt",
                                                 !.key = key]
                        ELSE /\ ClientSend(ClientAuthErr("AccessDenied"))
                             /\ authConn' = [authConn EXCEPT !.pc = "done",
                                                 !.result = "RemoteError(Unauthorized)"]
              ELSE /\ ClientSend(ClientAuthErr("IllegalTransition"))
                   /\ authConn' = [authConn EXCEPT !.pc = "done",
                                       !.result = "IllegalTransition"]
    /\ UNCHANGED <<authServ, conn, tampered>>
    /\ UNCHANGED nonAuth

\* Lines 149-163: second recv_message and its match.
ClientRecvEncrypt ==
    /\ authConn.pc = "recv_encrypt"
    /\ s2c # <<>>
    /\ LET m == Head(s2c)
       IN  /\ s2c' = Tail(s2c)
           /\ rcvd' = [rcvd EXCEPT !["client"] = Append(@, m)]
           /\ IF m.type = "Encrypt"
              THEN IF m.err # ""
                   THEN /\ authConn' = [authConn EXCEPT !.pc = "done",
                                            !.result = "RemoteError(" \o m.err \o ")"]
                        /\ UNCHANGED <<c2s, sent, conn>>
                   ELSE /\ conn' = [conn EXCEPT !["client"] =
                                        try_from_conn(authConn.key, authConn.nonce)]
                        /\ authConn' = [authConn EXCEPT !.pc = "done", !.result = "Ok"]
                        /\ UNCHANGED <<c2s, sent>>
              ELSE /\ ClientSend(CryptoError("IllegalTransition"))
                   /\ authConn' = [authConn EXCEPT !.pc = "done",
                                       !.result = "IllegalTransition"]
                   /\ UNCHANGED conn
    /\ UNCHANGED <<authServ, tampered>>
    /\ UNCHANGED nonAuth

\* recv_message()? when the server has returned and dropped the socket:
\* bincode reports the end of the stream as an I/O error.
ClientRecvEof ==
    /\ authConn.pc \in {"recv_server_auth", "recv_encrypt"}
    /\ s2c = <<>>
    /\ authServ.pc = "done"
    /\ authServ.result # "Ok"
    /\ authConn' = [authConn EXCEPT !.pc = "done", !.result = "Bincode(Io)"]
    /\ UNCHANGED <<authServ, c2s, s2c, sent, rcvd, conn, tampered>>
    /\ UNCHANGED nonAuth

(***************************************************************************)
(* AuthServ::secure_stream (conn.rs 194-262).                              *)
(***************************************************************************)
\* A lookup that takes the first grant whatever the name.
FindAuth_First(name) == <<auth_storage[1]>>

\* auth_storage.into_iter().find(|rna| rna.node_name == hello.node_name)
FindAuth(name) ==
    LET hits == {i \in 1..Len(auth_storage) : auth_storage[i].node_name = name}
    IN  IF hits = {} THEN <<>>
        ELSE <<auth_storage[CHOOSE i \in hits : \A j \in hits : i <= j]>>

\* Lines 208-240: first recv_message and its match.
ServerRecvHello ==
    /\ authServ.pc = "recv_hello"
    /\ c2s # <<>>
    /\ LET m == Head(c2s)
           found == FindAuth(m.node_name)
       IN  /\ c2s' = Tail(c2s)
           /\ rcvd' = [rcvd EXCEPT !["server"] = Append(@, m)]
           /\ IF m.type = "Hello"
              THEN IF found # <<>>
                   THEN LET auth == found[1]
                        IN  /\ ServerSend(ServerAuthOk(auth.verifier, authServ.challenge,
                                              hash_hmac(auth.key, m.challenge)))
                            /\ authServ' = [authServ EXCEPT
                                   !.pc = "recv_client_auth",
                                   !.nonce = m.nonce,
                                   !.key = auth.key,
                                   !.remote_node_name = m.node_name,
                                   !.client_proof = hash_hmac(auth.key, authServ.challenge)]
                   ELSE /\ ServerSend(ServerAuthErr("AccessDenied"))
                        /\ authServ' = [authServ EXCEPT !.pc = "done",
                                            !.result = "RemoteError(Unauthorized)"]
              ELSE /\ ServerSend(ServerAuthErr("IllegalTransition"))
                   /\ authServ' = [authServ EXCEPT !.pc = "done",
                                       !.result = "IllegalTransition"]
    /\ UNCHANGED <<authConn, conn, tampered>>
    /\ UNCHANGED nonAuth

\* Lines 242-261: second recv_message and its match.
ServerRecvClientAuth ==
    /\ authServ.pc = "recv_client_auth"
    /\ c2s # <<>>
    /\ LET m == Head(c2s)
       IN  /\ c2s' = Tail(c2s)
           /\ rcvd' = [rcvd EXCEPT !["server"] = Append(@, m)]
           /\ IF m.type = "ClientAuth"
              THEN IF m.err # ""
                   THEN \* client_auth? propagates the remote error
                        /\ authServ' = [authServ EXCEPT !.pc = "done",
                                            !.result = "RemoteError(" \o m.err \o ")"]
                        /\ UNCHANGED <<s2c, sent, conn>>
                   ELSE IF ct_eq(m.proof, authServ.client_proof)
                        THEN /\ ServerSend(EncryptOk)
                             /\ conn' = [conn EXCEPT !["server"] =
                                             try_from_conn(authServ.key, authServ.nonce)]
                             /\ authServ' = [authServ EXCEPT !.pc = "done",
                                                 !.result = "Ok"]
                        ELSE /\ ServerSend(EncryptErr("AccessDenied"))
                             /\ authServ' = [authServ EXCEPT !.pc = "done",
                                                 !.result = "RemoteError(Unauthorized)"]
                             /\ UNCHANGED conn
              ELSE /\ ServerSend(EncryptErr("IllegalTransition"))
                   /\ authServ' = [authServ EXCEPT !.pc = "done",
                                       !.result = "IllegalTransition"]
                   /\ UNCHANGED conn
    /\ UNCHANGED <<authConn, tampered>>
    /\ UNCHANGED nonAuth

ServerRecvEof ==
    /\ authServ.pc \in {"recv_hello", "recv_client_auth"}
    /\ c2s = <<>>
    /\ authConn.pc = "done"
    /\ authConn.result # "Ok"
    /\ authServ' = [authServ EXCEPT !.pc = "done", !.result = "Bincode(Io)"]
    /\ UNCHANGED <<authConn, c2s, s2c, sent, rcvd, conn, tampered>>
    /\ UNCHANGED nonAuth

(***************************************************************************)
(* The network attacker: handshake messages travel in the clear, so the    *)
(* message at the head of either direction may be replaced by any other.   *)
(***************************************************************************)
TamperC2S ==
    /\ tampered < MaxTamper
    /\ c2s # <<>>
    /\ \E m \in CryptoMessages \ {Head(c2s)} : c2s' = <<m>> \o Tail(c2s)
    /\ tampered' = tampered + 1
    /\ UNCHANGED <<authConn, authServ, s2c, sent, rcvd, conn>>
    /\ UNCHANGED nonAuth

TamperS2C ==
    /\ tampered < MaxTamper
    /\ s2c # <<>>
    /\ \E m \in CryptoMessages \ {Head(s2c)} : s2c' = <<m>> \o Tail(s2c)
    /\ tampered' = tampered + 1
    /\ UNCHANGED <<authConn, authServ, c2s, sent, rcvd, conn>>
    /\ UNCHANGED nonAuth

NextAuth ==
    \/ ClientHello
    \/ ClientRecvServerAuth
    \/ ClientRecvEncrypt
    \/ ClientRecvEof
    \/ ServerRecvHello
    \/ ServerRecvClientAuth
    \/ ServerRecvEof
    \/ TamperC2S
    \/ TamperS2C


(***************************************************************************)
(* The streaming cipher (hbak_common/src/stream.rs).                       *)
(*                                                                         *)
(* Sizes are scaled: CHUNKSIZE stands for the 4 MiB chunk, TAGLEN for the  *)
(* 16 byte Poly1305 tag and NONCELEN for the 19 byte stream nonce.  A byte *)
(* on the wire is a record; the cipher is symbolic: a sealed chunk opens   *)
(* only under the key, counter and last-flag it was sealed with, and only  *)
(* if every byte of it and of its tag is present and in place.             *)
(***************************************************************************)
CHUNKSIZE == 2
TAGLEN == 1
NONCELEN == 2
\* The longest plaintext the model encrypts.
MaxPlainLen == 5

Min(a, b) == IF a <= b THEN a ELSE b

NoStreamKey == hash_argon2id(<<>>, "")

WireByte(kind, idx, v, key, ctr, last, data) ==
    [kind |-> kind, idx |-> idx, v |-> v, key |-> key, ctr |-> ctr,
     last |-> last, data |-> data]

\* ChaChaPoly1305::generate_nonce: the i-th byte of the fresh nonce.
NonceByte(i) == WireByte("nonce", i, i, NoStreamKey, 0, FALSE, <<>>)

generate_nonce == [i \in 1..NONCELEN |-> NonceByte(i)]

\* The STREAM construction (EncryptorBE32 / DecryptorBE32): chunk number ctr,
\* sealed as the last chunk or not, is the keystream-masked plaintext
\* followed by a tag over all of it.
Seal(key, ctr, last, pt) ==
    [i \in 1..Len(pt) |-> WireByte("ct", i, pt[i], key, ctr, last, <<>>)]
    \o [j \in 1..TAGLEN |-> WireByte("tag", j, 0, key, ctr, last, pt)]

\* Opening fails (ok = FALSE) unless c is exactly what Seal produced under
\* the same key, counter and last-flag.
Open(key, ctr, last, c) ==
    IF Len(c) < TAGLEN
    THEN [ok |-> FALSE, pt |-> <<>>]
    ELSE LET n == Len(c) - TAGLEN
             pt == [i \in 1..n |-> c[i].v]
         IN  IF c = Seal(key, ctr, last, pt)
             THEN [ok |-> TRUE, pt |-> pt]
             ELSE [ok |-> FALSE, pt |-> <<>>]

\* A cipher that has been taken (Option::None) or never created.
NoCipher == -1

\* SnapshotStream::new (stream.rs 47-63): buf starts as the nonce.
SnapshotStream_new(passphrase) ==
    [pos |-> 0, cipher |-> 0, key |-> hash_argon2id(generate_nonce, passphrase),
     buf |-> generate_nonce, panicked |-> FALSE]

\* self.inner.fill_buf().map(|b| !b.is_empty())
has_data_left(p, pos) == pos < Len(p)

\* SnapshotStream::fill_buf (stream.rs 78-108).
fill_buf(ss, p) ==
    IF ss.buf = <<>> /\ has_data_left(p, ss.pos)
    THEN LET n == Min(CHUNKSIZE, Len(p) - ss.pos)
             chunk == SubSeq(p, ss.pos + 1, ss.pos + n)
         IN  IF ss.cipher = NoCipher
             THEN [ss EXCEPT !.pos = ss.pos + n, !.panicked = TRUE]
             ELSE IF has_data_left(p, ss.pos + n)
                  THEN [ss EXCEPT !.pos = ss.pos + n,
                                  !.buf = Seal(ss.key, ss.cipher, FALSE, chunk),
                                  !.cipher = ss.cipher + 1]
                  ELSE [ss EXCEPT !.pos = ss.pos + n,
                                  !.buf = Seal(ss.key, ss.cipher, TRUE, chunk),
                                  !.cipher = NoCipher]
    ELSE ss

\* SnapshotStream::consume (stream.rs 110-116).
consume(ss, amt) == [ss EXCEPT !.buf = SubSeq(ss.buf, amt + 1, Len(ss.buf))]

\* SnapshotStream::read (stream.rs 67-74) into a buffer of len bytes:
\* the stream afterwards and the bytes returned.
SnapshotStream_read(ss, p, len) ==
    LET filled == fill_buf(ss, p)
        n == Min(len, Len(filled.buf))
    IN  [ss |-> consume(filled, n), out |-> SubSeq(filled.buf, 1, n)]

\* RecoveryStream::new (stream.rs 138-146).
RecoveryStream_new(passphrase) ==
    [closed |-> FALSE, cipher |-> NoCipher, key |-> NoStreamKey,
     passphrase |-> passphrase, buf |-> <<>>, inner |-> <<>>]

\* A threshold that forgets the authentication tag.
chunk_buffered_NoTag(rs) == Len(rs.buf) >= CHUNKSIZE

\* A threshold that counts the byte that is about to be buffered.
chunk_buffered_Early(rs) == Len(rs.buf) + 1 >= TAGLEN + CHUNKSIZE

\* self.buf.len() >= 16 + CHUNKSIZE (stream.rs 193).
chunk_buffered(rs) == Len(rs.buf) >= TAGLEN + CHUNKSIZE

\* One iteration of the loop of RecoveryStream::write (stream.rs 190-215).
write_byte(rs, byte) ==
    IF rs.cipher # NoCipher
    THEN IF chunk_buffered(rs)
         THEN IF Len(rs.buf) < TAGLEN + CHUNKSIZE
              THEN \* read_exact fails on a short buffer
                   [ok |-> FALSE, rs |-> [rs EXCEPT !.buf = <<>>]]
              ELSE
              LET chunk == SubSeq(rs.buf, 1, TAGLEN + CHUNKSIZE)
                  rest == SubSeq(rs.buf, TAGLEN + CHUNKSIZE + 1, Len(rs.buf))
                  opened == Open(rs.key, rs.cipher, FALSE, chunk)
              IN  IF opened.ok
                  THEN [ok |-> TRUE,
                        rs |-> [rs EXCEPT !.cipher = rs.cipher + 1,
                                          !.inner = rs.inner \o opened.pt,
                                          !.buf = Append(rest, byte)]]
                  ELSE [ok |-> FALSE, rs |-> [rs EXCEPT !.buf = rest]]
         ELSE [ok |-> TRUE, rs |-> [rs EXCEPT !.buf = Append(rs.buf, byte)]]
    ELSE IF Len(rs.buf) >= NONCELEN
         THEN LET nonce_buf == SubSeq(rs.buf, 1, NONCELEN)
                  rest == SubSeq(rs.buf, NONCELEN + 1, Len(rs.buf))
              IN  [ok |-> TRUE,
                   rs |-> [rs EXCEPT !.cipher = 0,
                                     !.key = hash_argon2id(nonce_buf, rs.passphrase),
                                     !.buf = Append(rest, byte)]]
         ELSE [ok |-> TRUE, rs |-> [rs EXCEPT !.buf = Append(rs.buf, byte)]]

\* RecoveryStream::write (stream.rs 185-218): Err(BrokenPipe) when closed,
\* else the bytes one by one, stopping at the first chunk that fails to open.
RECURSIVE RecoveryStream_write(_, _)
RecoveryStream_write(rs, bytes) ==
    IF rs.closed THEN [ok |-> FALSE, rs |-> rs]
    ELSE IF bytes = <<>> THEN [ok |-> TRUE, rs |-> rs]
    ELSE LET one == write_byte(rs, Head(bytes))
         IN  IF one.ok THEN RecoveryStream_write(one.rs, Tail(bytes)) ELSE one

\* RecoveryStream::close (stream.rs 160-181).
RecoveryStream_close(rs) ==
    IF rs.closed THEN [ok |-> FALSE, rs |-> rs]
    ELSE LET n == Min(Len(rs.buf), TAGLEN + CHUNKSIZE)
             chunk == SubSeq(rs.buf, 1, n)
             rest == SubSeq(rs.buf, n + 1, Len(rs.buf))
             shut == [rs EXCEPT !.closed = TRUE, !.buf = rest]
         IN  IF rs.cipher # NoCipher
             THEN LET opened == Open(rs.key, rs.cipher, TRUE, chunk)
                  IN  IF opened.ok
                      THEN [ok |-> TRUE,
                            rs |-> [shut EXCEPT !.cipher = NoCipher,
                                                !.inner = rs.inner \o opened.pt]]
                      ELSE [ok |-> FALSE, rs |-> [shut EXCEPT !.cipher = NoCipher]]
             ELSE [ok |-> TRUE, rs |-> shut]

\* The plaintexts: one per length, every byte different from the others.
Plaintexts == {[i \in 1..n |-> i] : n \in 0..MaxPlainLen}

\* The buffer sizes read and write are called with.
IoSizes == {1, TAGLEN + CHUNKSIZE}

CryptoParked ==
    /\ plain = <<>>
    /\ sstream = SnapshotStream_new("")
    /\ wire = <<>>
    /\ input = <<>>
    /\ fed = 0
    /\ rstream = RecoveryStream_new("")
    /\ cphase = "parked"
    /\ rresult = [write |-> "none", close |-> "none"]

InitCrypto ==
    /\ plain \in Plaintexts
    /\ \E pw \in Passphrases :
          /\ sstream = SnapshotStream_new(pw)
          /\ rstream = RecoveryStream_new(pw)
    /\ wire = <<>>
    /\ input = <<>>
    /\ fed = 0
    /\ cphase = "encrypt"
    /\ rresult = [write |-> "none", close |-> "none"]

\* The reader of the SnapshotStream reads once more; a read of 0 bytes is the
\* end of the ciphertext.
SsRead ==
    /\ cphase = "encrypt"
    /\ ~sstream.panicked
    /\ \E len \in IoSizes :
          LET r == SnapshotStream_read(sstream, plain, len)
          IN  /\ sstream' = r.ss
              /\ wire' = wire \o r.out
              /\ cphase' = IF r.out = <<>> /\ ~r.ss.panicked THEN "cut" ELSE cphase
    /\ UNCHANGED <<plain, input, fed, rstream, rresult>>
    /\ UNCHANGED nonCrypto

\* The ciphertext reaches the RecoveryStream whole (cut = 0) or with its
\* last cut bytes missing.
Truncate ==
    /\ cphase = "cut"
    /\ \E cut \in 0..Len(wire) : input' = SubSeq(wire, 1, Len(wire) - cut)
    /\ cphase' = "feed"
    /\ UNCHANGED <<plain, sstream, wire, fed, rstream, rresult>>
    /\ UNCHANGED nonCrypto

\* One call of RecoveryStream::write with the next bytes of the input.
RsWrite ==
    /\ cphase = "feed"
    /\ fed < Len(input)
    /\ rresult.write # "Err"
    /\ \E len \in IoSizes :
          LET n == Min(len, Len(input) - fed)
              r == RecoveryStream_write(rstream, SubSeq(input, fed + 1, fed + n))
          IN  /\ rstream' = r.rs
              /\ fed' = fed + n
              /\ rresult' = [rresult EXCEPT !.write = IF r.ok THEN "Ok" ELSE "Err"]
    /\ UNCHANGED <<plain, sstream, wire, input, cphase>>
    /\ UNCHANGED nonCrypto

\* RecoveryStream::close once the input is used up, or after a failed write.
RsClose ==
    /\ cphase = "feed"
    /\ fed = Len(input) \/ rresult.write = "Err"
    /\ LET r == RecoveryStream_close(rstream)
       IN  /\ rstream' = r.rs
           /\ rresult' = [rresult EXCEPT !.close = IF r.ok THEN "Ok" ELSE "Err"]
    /\ cphase' = "closed"
    /\ UNCHANGED <<plain, sstream, wire, input, fed>>
    /\ UNCHANGED nonCrypto

NextCrypto ==
    \/ SsRead
    \/ Truncate
    \/ RsWrite
    \/ RsClose

(***************************************************************************)
(* The stream session: StreamConn (conn.rs 282-558), the snapshot files    *)
(* it is given by hbak and hbakd, and the backup directory of each node.   *)
(***************************************************************************)
\* Bounds of the session model.
MaxChunks == 2

\* The last second of the clock.
MaxTime == 3

\* One connection is the pair client / server, a second one client2 / server2.
\* Both clients run on node A, both handler threads in the hbakd of node B.
Endpoints == {"client", "server", "client2", "server2"}

peer_of(e) ==
    CASE e = "client" -> "server"
      [] e = "server" -> "client"
      [] e = "client2" -> "server2"
      [] e = "server2" -> "client2"

IsServer(e) == e \in {"server", "server2"}

node_of(e) == IF IsServer(e) THEN "B" ELSE "A"

\* proto.rs Volume and Snapshot; NaiveDateTime is a number, MIN is 0.
Volume(n, sv) == [node_name |-> n, subvol |-> sv]

Snapshot(n, sv, incr, t) ==
    [node_name |-> n, subvol |-> sv, is_incremental |-> incr, taken |-> t]

NoSnapshot == Snapshot("", "", FALSE, 0)

is_of_volume(s, v) == s.node_name = v.node_name /\ s.subvol = v.subvol

VolA == Volume("A", "home")
VolB == Volume("B", "data")
VolX == Volume("X", "home")

sA1 == Snapshot("A", "home", FALSE, 1)
sA2 == Snapshot("A", "home", TRUE, 2)
sB1 == Snapshot("B", "data", FALSE, 1)
sX1 == Snapshot("X", "home", FALSE, 1)

\* Every snapshot node A can take of its subvolume up to MaxTime, the snapshot
\* of node B and one of a node that has no grant.
Snapshots ==
    {sA1, sA2, sB1, sX1}
        \cup {Snapshot("A", "home", i, t) : i \in BOOLEAN, t \in 1..MaxTime}

\* The volumes an endpoint accepts from its peer: RemoteNode::pull on the
\* client (hbak main.rs 425), RemoteNodeAuth::push on the server (hbakd 236).
rx_volumes(e) == IF IsServer(e) THEN {VolA} ELSE {VolB}

(***************************************************************************)
(* The backup directory.  A file is an inode; a path names an inode, and   *)
(* an open File keeps its inode whatever happens to the path.              *)
(***************************************************************************)
backup_path(s) == <<s, "">>
streaming_path(s) == <<s, ".part">>

NoIno == 0

EmptyDir ==
    [dir |-> [p \in {backup_path(s) : s \in Snapshots}
                     \cup {streaming_path(s) : s \in Snapshots} |-> NoIno],
     data |-> <<>>]

exists(d, p) == d.dir[p] # NoIno

\* File::create: a new file, or the existing one truncated to length 0.
File_create(d, p) ==
    IF exists(d, p)
    THEN [fs |-> [d EXCEPT !.data[d.dir[p]] = <<>>], ino |-> d.dir[p]]
    ELSE [fs |-> [dir |-> [d.dir EXCEPT ![p] = Len(d.data) + 1],
                  data |-> Append(d.data, <<>>)],
          ino |-> Len(d.data) + 1]

\* File::write_all on an open file.
File_write(d, ino, bytes) == [d EXCEPT !.data[ino] = @ \o bytes]

\* fs::rename: fails if the source is missing, replaces the target otherwise.
fs_rename(d, from, to) ==
    IF ~exists(d, from)
    THEN [ok |-> FALSE, fs |-> d]
    ELSE [ok |-> TRUE,
          fs |-> [d EXCEPT !.dir = [@ EXCEPT ![to] = d.dir[from], ![from] = NoIno]]]

\* A directory that already holds finalized backups of the given snapshots.
RECURSIVE DirWith(_)
DirWith(seq) ==
    IF seq = <<>> THEN EmptyDir
    ELSE LET d == DirWith(Tail(seq))
             c == File_create(d, backup_path(Head(seq)))
         IN  File_write(c.fs, c.ino, <<<<"old", 0>>>>)

\* An all_backups without the test of the extension.
all_backups_WithPart(d, v) ==
    {s \in Snapshots : (exists(d, backup_path(s)) \/ exists(d, streaming_path(s)))
                        /\ is_of_volume(s, v)}

\* LocalNode::all_backups: every entry of the directory that is no .part file.
all_backups(d, v) ==
    {s \in Snapshots : exists(d, backup_path(s)) /\ is_of_volume(s, v)}

\* min_by_key in the place of max_by_key.
MaxTaken_Min(S) == IF S = {} THEN 0 ELSE CHOOSE t \in {s.taken : s \in S} :
                                            \A s \in S : t <= s.taken

MaxTaken(S) == IF S = {} THEN 0 ELSE CHOOSE t \in {s.taken : s \in S} :
                                        \A s \in S : s.taken <= t

\* LocalNode::latest_snapshots for a volume of another node.
latest_snapshots(d, v) ==
    [last_full |-> MaxTaken({s \in all_backups(d, v) : ~s.is_incremental}),
     last_incremental |-> MaxTaken({s \in all_backups(d, v) : s.is_incremental})]

(***************************************************************************)
(* LocalNode (proto.rs 342-872): the snapshot directory holds the node's   *)
(* own snapshots, the backup directory those of other nodes.  A fallible   *)
(* method returns [err, val]; err = "" stands for Ok(val).                 *)
(***************************************************************************)
Res(err, val) == [err |-> err, val |-> val]

LocalNode(n) == [name |-> n, snaps |-> snaps[n], dir |-> fs[n]]

\* NodeConfig.subvols and LocalNode::owns_subvol.
owns_subvol(n, subvol) == subvol = (IF n = "A" THEN "home" ELSE "data")

\* LocalNode::all_snapshots(Some(subvol)).
all_snapshots(ln, subvol) ==
    IF ~owns_subvol(ln.name, subvol) THEN Res("ForeignSubvolume", {})
    ELSE Res("", {s \in ln.snaps : s.subvol = subvol})

\* A previous that takes a snapshot of the same second for an older one.
previous_Inclusive(S, child) ==
    LET older == {s \in S : s.taken <= child.taken}
    IN  {s \in older : s.taken = MaxTaken(older)}

\* max_by_key(taken) over the snapshots of S older than child.
previous(S, child) ==
    LET older == {s \in S : s.taken < child.taken}
    IN  {s \in older : s.taken = MaxTaken(older)}

\* LocalNode::parent_of.  Of a full and an incremental snapshot of the same
\* second max_by_key returns the last one, the incremental.
parent_of(ln, child) ==
    LET all == all_snapshots(ln, child.subvol)
        full == previous({s \in all.val : ~s.is_incremental}, child)
        incr == previous({s \in all.val : s.is_incremental}, child)
        both == full \cup incr
    IN  IF all.err # "" THEN Res(all.err, NoSnapshot)
        ELSE IF full = {} THEN Res("NoFullSnapshot", NoSnapshot)
        ELSE Res("", CHOOSE s \in both :
                        /\ s.taken = MaxTaken(both)
                        /\ \A r \in both : r.taken = s.taken => (s.is_incremental \/ ~r.is_incremental))

\* An all_*_after that also returns the snapshot taken at the tip itself.
all_after_Inclusive(ln, v, incr, after) ==
    IF v.node_name = ln.name
    THEN LET all == all_snapshots(ln, v.subvol)
         IN  Res(all.err, {s \in all.val : s.is_incremental = incr /\ s.taken >= after})
    ELSE Res("", {s \in all_backups(ln.dir, v) : s.is_incremental = incr /\ s.taken >= after})

\* LocalNode::all_full_after (incr = FALSE) and all_incremental_after
\* (incr = TRUE), with snapshot_*_after and backup_*_after.
all_after(ln, v, incr, after) ==
    IF v.node_name = ln.name
    THEN LET all == all_snapshots(ln, v.subvol)
         IN  Res(all.err, {s \in all.val : s.is_incremental = incr /\ s.taken > after})
    ELSE Res("", {s \in all_backups(ln.dir, v) : s.is_incremental = incr /\ s.taken > after})

\* LocalNode::latest_snapshots on any volume: latest_full and
\* latest_incremental look into the snapshot directory for a volume of the
\* node itself.
latest_snapshots_of(ln, v) ==
    IF v.node_name = ln.name
    THEN LET all == all_snapshots(ln, v.subvol)
         IN  Res(all.err,
                 [last_full |-> MaxTaken({s \in all.val : ~s.is_incremental}),
                  last_incremental |-> MaxTaken({s \in all.val : s.is_incremental})])
    ELSE Res("", latest_snapshots(ln.dir, v))

\* LocalNode::latest_backup_full.
latest_backup_full(ln, v) ==
    LET full == {s \in all_backups(ln.dir, v) : ~s.is_incremental}
    IN  IF full = {} THEN Res("NoFullBackup", NoSnapshot)
        ELSE Res("", CHOOSE s \in full : s.taken = MaxTaken(full))

\* LocalNode::latest_snapshot (proto.rs 484-494): the later of the latest
\* full and the latest incremental snapshot of the subvolume; it needs a
\* full one.
latest_snapshot(ln, subvol) ==
    LET all == all_snapshots(ln, subvol)
        full == {s \in all.val : ~s.is_incremental}
        top == {s \in all.val :
                   /\ s.taken = MaxTaken({r \in all.val : r.is_incremental = s.is_incremental})
                   /\ \A r \in all.val : r.taken <= s.taken \/ r.is_incremental = s.is_incremental}
    IN  IF all.err # "" THEN Res(all.err, NoSnapshot)
        ELSE IF full = {} THEN Res("NoFullSnapshot", NoSnapshot)
        ELSE Res("", CHOOSE s \in top : \A r \in top : s.is_incremental \/ ~r.is_incremental)

\* LocalNode::restore (proto.rs 800-846) with every btrfs command
\* succeeding: the result and the changes made below the mount point, in
\* order.  present says whether the subvolume exists there.
restore(ln, subvol, present, ignore_fstab) ==
    LET deleted == IF present THEN <<"subvolume delete">> ELSE <<>>
        fstab == IF present /\ ~ignore_fstab THEN <<"write etc/fstab">> ELSE <<>>
        snapshot == latest_snapshot(ln, subvol)
    IN  IF snapshot.err # "" THEN Res(snapshot.err, deleted)
        ELSE Res("", deleted \o <<"subvolume snapshot">> \o fstab)

\* LocalNode::export: send_snapshot resolves the parent of an incremental
\* snapshot of the node itself; a backup is opened as a file.
export(ln, s) ==
    IF s.node_name = ln.name
    THEN IF s.is_incremental THEN parent_of(ln, s).err ELSE ""
    ELSE IF exists(ln.dir, backup_path(s)) THEN "" ELSE "Io(NotFound)"

(***************************************************************************)
(* StreamMessage (message.rs 80-95) and its sealed form on the wire.       *)
(***************************************************************************)
NoSyncInfo == [v \in {} |-> 0]

\* A Result<(), RemoteError> inside a message: "" is Ok(()), anything else
\* the name of the RemoteError.
Ok == ""

SMsg(type, err, s, chunk, info) ==
    [type |-> type, err |-> err, snapshot |-> s, chunk |-> chunk, info |-> info]

SyncInfo(info) == SMsg("SyncInfo", "", NoSnapshot, <<>>, info)
Replicate(s) == SMsg("Replicate", "", s, <<>>, NoSyncInfo)
Stream(e) == SMsg("Stream", e, NoSnapshot, <<>>, NoSyncInfo)
Chunk(c) == SMsg("Chunk", "", NoSnapshot, c, NoSyncInfo)
End(e) == SMsg("End", e, NoSnapshot, <<>>, NoSyncInfo)
Done == SMsg("Done", "", NoSnapshot, <<>>, NoSyncInfo)
Error(e) == SMsg("Error", e, NoSnapshot, <<>>, NoSyncInfo)
NoMsg == SMsg("None", "", NoSnapshot, <<>>, NoSyncInfo)

\* The messages a peer that leaves the protocol may send at any moment.
RogueMessages ==
    {SyncInfo(NoSyncInfo), Chunk(<<<<"rogue", 0>>>>), End(Ok), Done}
    \cup {Replicate(s) : s \in {sA1, sX1}}

\* encrypt_next of the sender's encryptor: the frame is bound to the key,
\* the nonce and the position of the encryptor in its stream.
seal(a, m) == [msg |-> m, key |-> a.key, nonce |-> a.nonce, seq |-> a.enc]

NoFrame == [msg |-> NoMsg, key |-> NoKey, nonce |-> "", seq |-> 0]

\* decrypt_next of the receiver's decryptor succeeds on exactly the frame
\* that was sealed under the same key and nonce at the decryptor's position.
decrypts(a, f) == f.key = a.key /\ f.nonce = a.nonce /\ f.seq = a.dec

\* The threads of an endpoint: the caller of meta_sync and data_sync (which
\* runs the supervising loop), and the two threads data_sync spawns.
Threads == {"main", "tx", "rx"}

\* The sink rx_setup returns, with the snapshot it belongs to (conn.rs 397,
\* 410): a File on the client, a BufWriter around a File on the server.
NoSink == [open |-> FALSE, snapshot |-> NoSnapshot, ino |-> NoIno, buf |-> <<>>]

\* BufWriter::with_capacity(2 * CHUNKSIZE, file) holds one chunk of at most
\* 16 + CHUNKSIZE bytes but not two; a plain File holds nothing back.
BufWriterChunks == 1

sink_capacity(e) == IF IsServer(e) THEN BufWriterChunks ELSE 0

\* Write::write_all on the sink: a chunk that does not fit behind what is
\* buffered flushes the buffer first; a chunk that does not fit at all is
\* written through.
sink_write(e, d, sink, c) ==
    LET flush == Len(sink.buf) + Len(c) > sink_capacity(e)
        d1 == IF flush THEN File_write(d, sink.ino, sink.buf) ELSE d
        b1 == IF flush THEN <<>> ELSE sink.buf
    IN  IF Len(c) > sink_capacity(e)
        THEN [fs |-> File_write(d1, sink.ino, c), sink |-> [sink EXCEPT !.buf = b1]]
        ELSE [fs |-> d1, sink |-> [sink EXCEPT !.buf = b1 \o c]]

\* A sink that moves its file into place when it is dropped.
sink_drop_Rename(d, sink) ==
    IF sink.open
    THEN fs_rename(File_write(d, sink.ino, sink.buf), streaming_path(sink.snapshot),
                   backup_path(sink.snapshot)).fs
    ELSE d

\* Dropping the sink: BufWriter::drop flushes and ignores errors.
sink_drop(d, sink) == IF sink.open THEN File_write(d, sink.ino, sink.buf) ELSE d

\* One item of the tx argument of data_sync: a reader that yields len chunks,
\* and the snapshot it exports.
Item(s, len) == [snapshot |-> s, len |-> len]

NoTx == [pc |-> "idle", batch |-> <<>>, pos |-> 0, result |-> "running"]
NoRx == [pc |-> "idle", remote_done |-> FALSE, stream |-> NoSink,
         want |-> NoSnapshot, result |-> "running"]
NoSess == [pc |-> "parked", remote_done |-> FALSE, remote_sync_info |-> NoSyncInfo,
           result |-> "running"]
NoAead == [key |-> NoKey, nonce |-> "", enc |-> 0, dec |-> 0]
NoHist == [dones |-> 0, post |-> {}, accepted |-> {}]

\* StreamConn::try_from_conn (conn.rs 343-350): encryptor and decryptor both
\* start at position 0 of the stream of (key, nonce).
new_aead(c) == [key |-> c.key, nonce |-> c.nonce, enc |-> 0, dec |-> 0]

SyncParked ==
    /\ sess = [e \in Endpoints |-> NoSess]
    /\ tx = [e \in Endpoints |-> NoTx]
    /\ rx = [e \in Endpoints |-> NoRx]
    /\ start_streaming = [e \in Endpoints |-> FALSE]
    /\ local_done = [e \in Endpoints |-> FALSE]
    /\ chan = [e \in Endpoints |-> <<>>]
    /\ aead = [e \in Endpoints |-> NoAead]
    /\ pend = [e \in Endpoints |-> [t \in Threads |-> NoFrame]]
    /\ fs = [n \in {"A", "B"} |-> EmptyDir]
    /\ hist = [e \in Endpoints |-> NoHist]
    /\ injected = FALSE

(***************************************************************************)
(* StreamConn::send_message (conn.rs 301-314) takes the encryptor lock to  *)
(* seal and, after releasing it, the stream_write lock to write: two steps.*)
(***************************************************************************)
\* Lines 302-307: the calling thread seals m; it is blocked until Write.
Send(e, t, m) ==
    /\ pend' = [pend EXCEPT ![e][t] = seal(aead[e], m)]
    /\ aead' = [aead EXCEPT ![e].enc = @ + 1]

\* A thread that is inside send_message does nothing else.
Ready(e, t) == pend[e][t] = NoFrame

\* Lines 309-311: the sealed frame is written and flushed to the socket.
Write(e, t) ==
    /\ pend[e][t] # NoFrame
    /\ chan' = [chan EXCEPT ![peer_of(e)] = Append(@, pend[e][t])]
    /\ pend' = [pend EXCEPT ![e][t] = NoFrame]
    /\ UNCHANGED <<sess, tx, rx, start_streaming, local_done, aead, fs, hist, injected>>
    /\ UNCHANGED nonSync

\* The socket of e is closed: its StreamConn has been dropped.
closed(e) == sess[e].pc = "done" /\ \A t \in Threads : Ready(e, t)

RemoteError(e) == "RemoteError(" \o e \o ")"

(***************************************************************************)
(* StreamConn::meta_sync (conn.rs 355-378) and the SyncInfo its callers    *)
(* build (hbak main.rs 377-390, hbakd main.rs 173-182).                    *)
(***************************************************************************)
local_sync_info(e) ==
    [v \in rx_volumes(e) |-> latest_snapshots(fs[node_of(e)], v)]

\* Line 359.
MetaSend(e) ==
    /\ sess[e].pc = "meta_send"
    /\ Send(e, "main", SyncInfo(local_sync_info(e)))
    /\ sess' = [sess EXCEPT ![e].pc = "meta_recv"]
    /\ UNCHANGED <<tx, rx, start_streaming, local_done, chan, fs, hist, injected>>
    /\ UNCHANGED nonSync

\* Lines 361-377 on a frame; on SyncInfo the caller goes on to data_sync,
\* which spawns the two threads (lines 478, 492) and enters its loop.
MetaRecv(e) ==
    /\ sess[e].pc = "meta_recv"
    /\ Ready(e, "main")
    /\ chan[e] # <<>>
    /\ LET f == Head(chan[e])
           m == f.msg
       IN  /\ chan' = [chan EXCEPT ![e] = Tail(@)]
           /\ IF ~decrypts(aead[e], f)
              THEN /\ sess' = [sess EXCEPT ![e].pc = "done",
                                           ![e].result = "ChaCha20Poly1305"]
                   /\ UNCHANGED <<tx, rx, aead, pend>>
              ELSE IF m.type = "SyncInfo"
              THEN /\ sess' = [sess EXCEPT ![e].pc = "loop",
                                           ![e].remote_sync_info = m.info]
                   /\ tx' = [tx EXCEPT ![e].pc = "next"]
                   /\ rx' = [rx EXCEPT ![e].pc = "recv"]
                   /\ aead' = [aead EXCEPT ![e].dec = @ + 1]
                   /\ UNCHANGED pend
              ELSE /\ sess' = [sess EXCEPT ![e].pc = "done",
                                           ![e].result = "IllegalTransition"]
                   /\ pend' = [pend EXCEPT ![e]["main"] =
                                  seal(aead[e], Error("IllegalTransition"))]
                   /\ aead' = [aead EXCEPT ![e].dec = @ + 1, ![e].enc = @ + 1]
                   /\ UNCHANGED <<tx, rx>>
    /\ UNCHANGED <<start_streaming, local_done, fs, hist, injected>>
    /\ UNCHANGED nonSync

\* Line 361 when nothing arrives: the read timeout set by try_from_conn
\* (line 338) expires, or the peer has closed; recv_message()? fails.
MetaRecvFail(e) ==
    /\ sess[e].pc = "meta_recv"
    /\ Ready(e, "main")
    /\ chan[e] = <<>>
    /\ sess' = [sess EXCEPT ![e].pc = "done",
                            ![e].result = IF closed(peer_of(e))
                                          THEN "Bincode(Io(UnexpectedEof))"
                                          ELSE "Bincode(Io(WouldBlock))"]
    /\ UNCHANGED <<tx, rx, start_streaming, local_done, chan, aead, pend, fs, hist, injected>>
    /\ UNCHANGED nonSync

(***************************************************************************)
(* data_sync, the transmit thread (conn.rs 478-491) and send_chunk         *)
(* (462-474).                                                              *)
(***************************************************************************)
\* Lines 479-480 and 490: the next item of the batch, or the end of it.
TxNext(e) ==
    /\ tx[e].pc = "next"
    /\ Ready(e, "tx")
    /\ IF tx[e].batch = <<>>
       THEN /\ tx' = [tx EXCEPT ![e].pc = "done", ![e].result = "Ok"]
            /\ UNCHANGED <<pend, aead>>
       ELSE /\ Send(e, "tx", Replicate(Head(tx[e].batch).snapshot))
            /\ tx' = [tx EXCEPT ![e].pc = "wait"]
    /\ UNCHANGED <<sess, rx, start_streaming, local_done, chan, fs, hist, injected>>
    /\ UNCHANGED nonSync

\* Lines 482-484: the polling loop ends once the flag is seen set.
TxWait(e) ==
    /\ tx[e].pc = "wait"
    /\ Ready(e, "tx")
    /\ start_streaming[e]
    /\ tx' = [tx EXCEPT ![e].pc = "clear"]
    /\ UNCHANGED <<sess, rx, start_streaming, local_done, chan, aead, pend, fs, hist, injected>>
    /\ UNCHANGED nonSync

\* Line 485: the flag is cleared under a lock of its own.
TxClear(e) ==
    /\ tx[e].pc = "clear"
    /\ start_streaming' = [start_streaming EXCEPT ![e] = FALSE]
    /\ tx' = [tx EXCEPT ![e].pc = "chunk"]
    /\ UNCHANGED <<sess, rx, local_done, chan, aead, pend, fs, hist, injected>>
    /\ UNCHANGED nonSync

\* send_chunk: the reader yields its next chunk, or 0 bytes at its end.
send_chunk(e) ==
    LET it == Head(tx[e].batch)
    IN  IF tx[e].pos < it.len
        THEN /\ Send(e, "tx", Chunk(<<<<e, tx[e].pos>>>>))
             /\ tx' = [tx EXCEPT ![e].pos = @ + 1]
        ELSE /\ Send(e, "tx", End(Ok))
             /\ tx' = [tx EXCEPT ![e].pc = "next", ![e].pos = 0,
                                 ![e].batch = Tail(@)]

\* Line 487.
TxChunk(e) ==
    /\ tx[e].pc = "chunk"
    /\ Ready(e, "tx")
    /\ send_chunk(e)
    /\ UNCHANGED <<sess, rx, start_streaming, local_done, chan, fs, hist, injected>>
    /\ UNCHANGED nonSync

(***************************************************************************)
(* data_sync, the receive side: rx_setup and rx_finish as hbak (main.rs    *)
(* 416-448) and hbakd (main.rs 234-270) pass them, the handle closure      *)
(* (conn.rs 400-460) and the receive thread (492-523).                     *)
(***************************************************************************)
\* An accept that does not look whether the backup exists.
rx_setup_check_NoExists(e, d, s) ==
    IF ~\E v \in rx_volumes(e) : is_of_volume(s, v) /\ v.node_name # node_of(e)
    THEN "AccessDenied"
    ELSE ""

\* An accept that does not look whose volume the snapshot is.
rx_setup_check_NoAccess(e, d, s) ==
    IF exists(d, backup_path(s)) THEN "Immutable" ELSE ""

\* rx_setup up to its two checks: "" if the snapshot may be received.
rx_setup_check(e, d, s) ==
    IF ~\E v \in rx_volumes(e) : is_of_volume(s, v) /\ v.node_name # node_of(e)
    THEN "AccessDenied"
    ELSE IF exists(d, backup_path(s)) THEN "Immutable"
    ELSE ""

\* A finalize that reports success and renames nothing.
rx_finish_NoRename(d, s) == [ok |-> TRUE, fs |-> d]

\* rx_finish.
rx_finish(d, s) == fs_rename(d, streaming_path(s), backup_path(s))

Handled(r, reply, d, flag) ==
    [rx |-> r, reply |-> reply, fs |-> d, start_streaming |-> flag]

rx_return(r, res) == [r EXCEPT !.pc = "done", !.result = res]

\* An arm that lets every message pass that the others do not match.
handle_other_Ignore(r, d, flag) == Handled(r, NoMsg, d, flag)

\* The last arm of the match in handle (conn.rs 453-456).
handle_other(r, d, flag) ==
    Handled(rx_return(r, "IllegalTransition"), Error("IllegalTransition"), d, flag)

\* A receiver for which a Replicate during a reception is fatal.
already_streaming_Fatal(r, d, flag) ==
    Handled(rx_return(r, RemoteError("AlreadyStreaming")), Stream("AlreadyStreaming"),
            d, flag)

\* Replicate while a sink is open (conn.rs 418-422).
already_streaming(r, d, flag) == Handled(r, Stream("AlreadyStreaming"), d, flag)

\* A receiver that lets a Chunk or End without a sink pass in silence.
not_streaming_Silent(r, d, flag) == Handled(r, NoMsg, d, flag)

\* Chunk or End while no sink is open (conn.rs 433-435 and 446-448).
not_streaming(r, d, flag) == Handled(r, Error("NotStreaming"), d, flag)

\* The handle closure on message m, with r the state of the receive thread,
\* d the backup directory and flag the value of start_streaming.
handle(e, r, d, flag, m) ==
    CASE m.type = "Stream" ->
            IF m.err = Ok THEN Handled(r, NoMsg, d, TRUE)
            ELSE Handled(rx_return(r, RemoteError(m.err)), NoMsg, d, TRUE)
      [] m.type = "Replicate" ->
            IF ~r.stream.open
            THEN LET err == rx_setup_check(e, d, m.snapshot)
                 IN  IF err = Ok
                     THEN Handled([r EXCEPT !.pc = "create", !.want = m.snapshot],
                                  NoMsg, d, flag)
                     ELSE Handled(rx_return(r, RemoteError(err)), Stream(err), d, flag)
            ELSE already_streaming(r, d, flag)
      [] m.type = "Chunk" ->
            IF r.stream.open
            THEN LET w == sink_write(e, d, r.stream, m.chunk)
                 IN  Handled([r EXCEPT !.stream = w.sink], NoMsg, w.fs, flag)
            ELSE not_streaming(r, d, flag)
      [] m.type = "End" ->
            IF m.err # Ok THEN Handled(rx_return(r, RemoteError(m.err)), NoMsg, d, flag)
            ELSE IF r.stream.open
            THEN LET fin == rx_finish(sink_drop(d, r.stream), r.stream.snapshot)
                     r1 == [r EXCEPT !.stream = NoSink]
                 IN  IF fin.ok THEN Handled(r1, NoMsg, fin.fs, flag)
                     ELSE Handled(rx_return(r1, RemoteError("RxError")),
                                  Error("RxError"), fin.fs, flag)
            ELSE not_streaming(r, d, flag)
      [] m.type = "Done" -> Handled([r EXCEPT !.remote_done = TRUE], NoMsg, d, flag)
      [] m.type = "Error" -> Handled(rx_return(r, RemoteError(m.err)), NoMsg, d, flag)
      [] OTHER -> handle_other(r, d, flag)

\* The receive thread is at "recv" from the moment it is spawned until it
\* returns: there it evaluates the loop condition (line 495) and, if it holds,
\* waits in recv_message for at most READ_TIMEOUT before it evaluates the
\* condition again (lines 498-504).  The thread may thus be found in front
\* of the condition or inside recv_message at any moment.

\* Lines 495 and 522: the loop condition is found false.
RxExit(e) ==
    /\ rx[e].pc = "recv"
    /\ Ready(e, "rx")
    /\ local_done[e]
    /\ rx[e].remote_done
    /\ rx' = [rx EXCEPT ![e] = rx_return(@, "Ok")]
    /\ UNCHANGED <<sess, tx, start_streaming, local_done, chan, aead, pend, fs, hist, injected>>
    /\ UNCHANGED nonSync

\* Lines 496-519 on a frame: recv_message, then handle.
RxRecv(e) ==
    /\ rx[e].pc = "recv"
    /\ Ready(e, "rx")
    /\ chan[e] # <<>>
    /\ LET f == Head(chan[e])
           n == node_of(e)
           h == handle(e, rx[e], fs[n], start_streaming[e], f.msg)
       IN  /\ chan' = [chan EXCEPT ![e] = Tail(@)]
           /\ IF ~decrypts(aead[e], f)
              THEN /\ rx' = [rx EXCEPT ![e] = rx_return(@, "ChaCha20Poly1305")]
                   /\ UNCHANGED <<start_streaming, aead, pend, fs, hist>>
              ELSE /\ rx' = [rx EXCEPT ![e] = h.rx]
                   /\ start_streaming' = [start_streaming EXCEPT ![e] = h.start_streaming]
                   /\ fs' = [fs EXCEPT ![n] = h.fs]
                   /\ aead' = [aead EXCEPT ![e].dec = @ + 1,
                                           ![e].enc = IF h.reply = NoMsg THEN @ ELSE @ + 1]
                   /\ pend' = IF h.reply = NoMsg THEN pend
                              ELSE [pend EXCEPT ![e]["rx"] = seal(aead[e], h.reply)]
                   /\ hist' = [hist EXCEPT
                                 ![e].dones = IF f.msg.type = "Done" THEN @ + 1 ELSE @,
                                 ![e].post = IF rx[e].remote_done
                                             THEN @ \cup {f.msg.type} ELSE @]
    /\ UNCHANGED <<sess, tx, local_done, injected>>
    /\ UNCHANGED nonSync

\* rx_setup past its checks (hbakd main.rs 246-254), then conn.rs 410-411.
RxCreate(e) ==
    /\ rx[e].pc = "create"
    /\ LET n == node_of(e)
           c == File_create(fs[n], streaming_path(rx[e].want))
       IN  /\ fs' = [fs EXCEPT ![n] = c.fs]
           /\ rx' = [rx EXCEPT ![e].pc = "recv", ![e].want = NoSnapshot,
                               ![e].stream = [open |-> TRUE, snapshot |-> rx[e].want,
                                              ino |-> c.ino, buf |-> <<>>]]
    /\ Send(e, "rx", Stream(Ok))
    /\ hist' = [hist EXCEPT ![e].accepted = @ \cup {rx[e].want}]
    /\ UNCHANGED <<sess, tx, start_streaming, local_done, chan, injected>>
    /\ UNCHANGED nonSync

\* Lines 499-504: the read times out after READ_TIMEOUT, nothing has come
\* and the peer has not closed: continue.
RxTimeout(e) ==
    /\ rx[e].pc = "recv"
    /\ Ready(e, "rx")
    /\ chan[e] = <<>>
    /\ ~closed(peer_of(e))
    /\ UNCHANGED syncVars
    /\ UNCHANGED nonSync

\* An end of file taken for a clean close as soon as the peer is done.
RxEof_RemoteOnly(e) ==
    /\ rx[e].pc = "recv"
    /\ Ready(e, "rx")
    /\ chan[e] = <<>>
    /\ closed(peer_of(e))
    /\ rx' = [rx EXCEPT ![e] = rx_return(@, IF rx[e].remote_done
                                            THEN "Ok"
                                            ELSE "Bincode(Io(UnexpectedEof))")]
    /\ UNCHANGED <<sess, tx, start_streaming, local_done, chan, aead, pend, fs, hist, injected>>
    /\ UNCHANGED nonSync

\* Lines 505-512: the peer has closed the connection.
RxEof(e) ==
    /\ rx[e].pc = "recv"
    /\ Ready(e, "rx")
    /\ chan[e] = <<>>
    /\ closed(peer_of(e))
    /\ rx' = [rx EXCEPT ![e] = rx_return(@, IF local_done[e] /\ rx[e].remote_done
                                            THEN "Ok"
                                            ELSE "Bincode(Io(UnexpectedEof))")]
    /\ UNCHANGED <<sess, tx, start_streaming, local_done, chan, aead, pend, fs, hist, injected>>
    /\ UNCHANGED nonSync

(***************************************************************************)
(* data_sync, the supervising loop (conn.rs 525-553) and the return.       *)
(***************************************************************************)
\* is_finished() of a spawned thread.
is_finished(e, t) ==
    /\ Ready(e, t)
    /\ IF t = "tx" THEN tx[e].pc = "done" ELSE rx[e].pc = "done"

\* A loop that says Done whatever the transmit thread returned.
SupJoinTx_DoneOnErr(e) ==
    /\ sess[e].pc = "loop"
    /\ Ready(e, "main")
    /\ is_finished(e, "tx")
    /\ ~local_done[e]
    /\ local_done' = [local_done EXCEPT ![e] = TRUE]
    /\ Send(e, "main", Done)
    /\ UNCHANGED <<sess, tx, rx, start_streaming, chan, fs, hist, injected>>
    /\ UNCHANGED nonSync

\* Lines 530-538.
SupJoinTx(e) ==
    /\ sess[e].pc = "loop"
    /\ Ready(e, "main")
    /\ is_finished(e, "tx")
    /\ ~local_done[e]
    /\ IF tx[e].result = "Ok"
       THEN /\ local_done' = [local_done EXCEPT ![e] = TRUE]
            /\ Send(e, "main", Done)
            /\ UNCHANGED sess
       ELSE /\ sess' = [sess EXCEPT ![e].pc = "scope", ![e].result = tx[e].result]
            /\ UNCHANGED <<local_done, pend, aead>>
    /\ UNCHANGED <<tx, rx, start_streaming, chan, fs, hist, injected>>
    /\ UNCHANGED nonSync

\* Lines 539-545.
SupJoinRx(e) ==
    /\ sess[e].pc = "loop"
    /\ Ready(e, "main")
    /\ is_finished(e, "rx")
    /\ ~sess[e].remote_done
    /\ sess' = IF rx[e].result = "Ok"
               THEN [sess EXCEPT ![e].remote_done = TRUE]
               ELSE [sess EXCEPT ![e].pc = "scope", ![e].result = rx[e].result]
    /\ UNCHANGED <<tx, rx, start_streaming, local_done, chan, aead, pend, fs, hist, injected>>
    /\ UNCHANGED nonSync

\* A loop that says Done once more when it ends.
SupBreak_DoneAgain(e) ==
    /\ sess[e].pc = "loop"
    /\ Ready(e, "main")
    /\ local_done[e]
    /\ sess[e].remote_done
    /\ sess' = [sess EXCEPT ![e].pc = "scope", ![e].result = "Ok"]
    /\ Send(e, "main", Done)
    /\ UNCHANGED <<tx, rx, start_streaming, local_done, chan, fs, hist, injected>>
    /\ UNCHANGED nonSync

\* Lines 547-549 and 555.
SupBreak(e) ==
    /\ sess[e].pc = "loop"
    /\ Ready(e, "main")
    /\ local_done[e]
    /\ sess[e].remote_done
    /\ sess' = [sess EXCEPT ![e].pc = "scope", ![e].result = "Ok"]
    /\ UNCHANGED <<tx, rx, start_streaming, local_done, chan, aead, pend, fs, hist, injected>>
    /\ UNCHANGED nonSync

\* Line 556-557: thread::scope returns once both threads have ended; then
\* data_sync returns, which drops the sink (line 397) and the StreamConn.
DataSyncReturn(e) ==
    /\ sess[e].pc = "scope"
    /\ is_finished(e, "tx")
    /\ is_finished(e, "rx")
    /\ sess' = [sess EXCEPT ![e].pc = "done"]
    /\ fs' = [fs EXCEPT ![node_of(e)] = sink_drop(@, rx[e].stream)]
    /\ rx' = [rx EXCEPT ![e].stream = NoSink]
    /\ UNCHANGED <<tx, start_streaming, local_done, chan, aead, pend, hist, injected>>
    /\ UNCHANGED nonSync

\* All steps of data_sync at endpoint e.
DataSyncStep(e) ==
    \/ TxNext(e)
    \/ TxWait(e)
    \/ TxClear(e)
    \/ TxChunk(e)
    \/ RxExit(e)
    \/ RxRecv(e)
    \/ RxCreate(e)
    \/ RxEof(e)
    \/ RxTimeout(e)
    \/ SupJoinTx(e)
    \/ SupJoinRx(e)
    \/ SupBreak(e)
    \/ DataSyncReturn(e)
    \/ \E t \in Threads : Write(e, t)

\* All steps of the stream session of endpoint e.
SessionStep(e) ==
    \/ MetaSend(e)
    \/ MetaRecv(e)
    \/ MetaRecvFail(e)
    \/ DataSyncStep(e)

\* The tx argument of data_sync: what the caller has queued for the peer.
Batches(e) ==
    IF IsServer(e) THEN {<<>>, <<Item(sB1, 1)>>}
    ELSE {<<>>, <<Item(sA1, MaxChunks)>>, <<Item(sA1, 1), Item(sA2, 1)>>}

\* One client and one handler thread of the server, both past a handshake
\* that agreed on the key of the grant and on the nonce of the client.
InitSync ==
    /\ sess = [e \in Endpoints |-> IF e \in Sides THEN [NoSess EXCEPT !.pc = "meta_send"] ELSE NoSess]
    /\ \E cb \in Batches("client"), sb \in Batches("server") :
          tx = [e \in Endpoints |->
                  IF e = "client" THEN [NoTx EXCEPT !.batch = cb]
                  ELSE IF e = "server" THEN [NoTx EXCEPT !.batch = sb]
                  ELSE NoTx]
    /\ rx = [e \in Endpoints |-> NoRx]
    /\ start_streaming = [e \in Endpoints |-> FALSE]
    /\ local_done = [e \in Endpoints |-> FALSE]
    /\ chan = [e \in Endpoints |-> <<>>]
    /\ aead = [e \in Endpoints |-> IF e \in Sides THEN new_aead(conn[e]) ELSE NoAead]
    /\ pend = [e \in Endpoints |-> [t \in Threads |-> NoFrame]]
    /\ \E held \in {<<>>, <<sA1>>} :
          fs = [n \in {"A", "B"} |-> IF n = "B" THEN DirWith(held) ELSE EmptyDir]
    /\ hist = [e \in Endpoints |-> NoHist]
    /\ injected = FALSE

NextSync == \E e \in Sides : SessionStep(e)

(***************************************************************************)
(* Two connections at once: serve (hbakd main.rs 121-142) spawns one       *)
(* handler thread per client, and both handlers store into the backup      *)
(* directory of node B.  Both clients are node A and push the same         *)
(* snapshot; both connections are past meta_sync, in which the server      *)
(* reported that it holds nothing of the volume.                           *)
(***************************************************************************)
InitServe ==
    /\ sess = [e \in Endpoints |->
                 [NoSess EXCEPT !.pc = "loop",
                                !.remote_sync_info =
                                    [v \in rx_volumes(peer_of(e)) |->
                                        latest_snapshots(EmptyDir, v)]]]
    /\ tx = [e \in Endpoints |->
               [NoTx EXCEPT !.pc = "next",
                            !.batch = IF IsServer(e) THEN <<>> ELSE <<Item(sA1, 1)>>]]
    /\ rx = [e \in Endpoints |-> [NoRx EXCEPT !.pc = "recv"]]
    /\ start_streaming = [e \in Endpoints |-> FALSE]
    /\ local_done = [e \in Endpoints |-> FALSE]
    /\ chan = [e \in Endpoints |-> <<>>]
    /\ aead = [e \in Endpoints |->
                 [key |-> Grant.key, nonce |-> IF e \in Sides THEN "N" ELSE "N2",
                  enc |-> 1, dec |-> 1]]
    /\ pend = [e \in Endpoints |-> [t \in Threads |-> NoFrame]]
    /\ fs = [n \in {"A", "B"} |-> EmptyDir]
    /\ hist = [e \in Endpoints |-> NoHist]
    /\ injected = FALSE

NextServe == \E e \in Endpoints : DataSyncStep(e)

(***************************************************************************)
(* A whole session: handshake, then meta_sync and data_sync, as sync       *)
(* (hbak main.rs 356-458) and handle_client (hbakd main.rs 161-275) run    *)
(* them, with a peer that may leave the protocol.                          *)
(***************************************************************************)
\* secure_stream(..)? has returned: on Ok the caller goes on to meta_sync
\* with the StreamConn, on Err it returns and the socket is dropped.  The
\* client has one snapshot of one chunk to push, the server nothing.
SessionStart(s) ==
    /\ sess[s].pc = "parked"
    /\ LET result == IF s = "client" THEN authConn.result ELSE authServ.result
       IN  /\ result # "running"
           /\ IF result = "Ok"
              THEN /\ sess' = [sess EXCEPT ![s].pc = "meta_send"]
                   /\ aead' = [aead EXCEPT ![s] = new_aead(conn[s])]
                   /\ tx' = [tx EXCEPT ![s].batch =
                                 IF s = "client" THEN <<Item(sA1, 1)>> ELSE <<>>]
              ELSE /\ sess' = [sess EXCEPT ![s].pc = "done", ![s].result = result]
                   /\ UNCHANGED <<aead, tx>>
    /\ UNCHANGED <<rx, start_streaming, local_done, chan, pend, fs, hist, injected>>
    /\ UNCHANGED nonSync

\* The peer of e leaves the protocol: it sends, properly sealed, a message
\* of its own choosing where the protocol has it send none.
Inject(e) ==
    /\ ~injected
    /\ sess[peer_of(e)].pc \notin {"parked", "done"}
    /\ \E m \in RogueMessages :
          chan' = [chan EXCEPT ![e] = Append(@, seal(aead[peer_of(e)], m))]
    /\ aead' = [aead EXCEPT ![peer_of(e)].enc = @ + 1]
    /\ injected' = TRUE
    /\ UNCHANGED <<sess, tx, rx, start_streaming, local_done, pend, fs, hist>>
    /\ UNCHANGED nonSync

InitSession ==
    /\ sess = [e \in Endpoints |-> NoSess]
    /\ tx = [e \in Endpoints |-> NoTx]
    /\ rx = [e \in Endpoints |-> NoRx]
    /\ start_streaming = [e \in Endpoints |-> FALSE]
    /\ local_done = [e \in Endpoints |-> FALSE]
    /\ chan = [e \in Endpoints |-> <<>>]
    /\ aead = [e \in Endpoints |-> NoAead]
    /\ pend = [e \in Endpoints |-> [t \in Threads |-> NoFrame]]
    /\ \E held \in {<<sA1>>, <<sX1>>} :
          fs = [n \in {"A", "B"} |-> IF n = "B" THEN DirWith(held) ELSE EmptyDir]
    /\ hist = [e \in Endpoints |-> NoHist]
    /\ injected = FALSE

NextSession ==
    \/ NextAuth
    \/ \E s \in Sides : SessionStart(s)
    \/ \E s \in Sides : SessionStep(s)
    \/ \E s \in Sides : Inject(s)

(***************************************************************************)
(* Names (proto.rs 128-177 and 240-260).  A string is a sequence of        *)
(* characters.  Here taken is an instant of seconds and nanoseconds, and   *)
(* the 14 digits of TIMESTAMP_FMT are one digit.                           *)
(***************************************************************************)
\* The longest node or subvolume name.
MaxName == 2

RECURSIVE Strings(_)
Strings(n) ==
    IF n = 0 THEN {<<>>}
    ELSE Strings(n - 1) \cup {Append(w, c) : w \in Strings(n - 1), c \in {"a", "_", "/", "."}}

\* str::split(sep): the pieces between the separators, at least one.
RECURSIVE split(_, _)
split(value, sep) ==
    IF \A i \in 1..Len(value) : value[i] # sep THEN <<value>>
    ELSE LET i == CHOOSE k \in 1..Len(value) :
                      value[k] = sep /\ \A j \in 1..(k - 1) : value[j] # sep
         IN  <<SubSeq(value, 1, i - 1)>> \o split(SubSeq(value, i + 1, Len(value)), sep)

\* NaiveDateTime::format(TIMESTAMP_FMT): "%Y%m%d%H%M%S" prints the seconds
\* and nothing below.
format(taken) == <<IF taken.secs = 0 THEN "0" ELSE "1">>

\* NaiveDateTime::parse_from_str(taken, TIMESTAMP_FMT).
parse_from_str(token) ==
    IF token = <<"0">> THEN Res("", [secs |-> 0, nanos |-> 0])
    ELSE IF token = <<"1">> THEN Res("", [secs |-> 1, nanos |-> 0])
    ELSE Res("ParseError", [secs |-> 0, nanos |-> 0])

\* Display for Snapshot.
Snapshot_to_string(s) ==
    s.node_name \o <<"_">> \o s.subvol \o <<"_">>
        \o (IF s.is_incremental THEN <<"i", "n", "c", "r">> ELSE <<"f", "u", "l", "l">>)
        \o <<"_">> \o format(s.taken)

\* TryFrom<&str> for Snapshot.
Snapshot_try_from(value) ==
    LET tokens == split(value, "_")
        ty == tokens[3]
        taken == parse_from_str(tokens[4])
        err == IF Len(tokens) < 2 THEN "MissingSubvolume"
               ELSE IF Len(tokens) < 3 THEN "MissingType"
               ELSE IF Len(tokens) < 4 THEN "MissingTimeTaken"
               ELSE IF ty \notin {<<"f", "u", "l", "l">>, <<"i", "n", "c", "r">>}
               THEN "InvalidType"
               ELSE taken.err
    IN  IF err # "" THEN Res(err, NoSnapshot)
        ELSE Res("", Snapshot(tokens[1], tokens[2], ty = <<"i", "n", "c", "r">>, taken.val))

\* Path::join: an absolute path replaces the directory.
join(dir, name) ==
    IF name # <<>> /\ name[1] = "/" THEN name
    ELSE IF dir[Len(dir)] = "/" THEN dir \o name
    ELSE dir \o <<"/">> \o name

\* Path::file_name: the last component, unless there is none or it is "..".
file_name(path) ==
    LET parts == split(path, "/")
        named == {i \in 1..Len(parts) : parts[i] \notin {<<>>, <<".">>}}
        last == parts[CHOOSE i \in named : \A j \in named : j <= i]
    IN  IF named = {} \/ last = <<".", ".">> THEN Res("NoFileName", <<>>)
        ELSE Res("", last)

\* TryFrom<&Path> for Snapshot.
Snapshot_try_from_path(path) ==
    IF file_name(path).err # "" THEN Res(file_name(path).err, NoSnapshot)
    ELSE Snapshot_try_from(file_name(path).val)

\* Display for Volume.
Volume_to_string(v) == v.node_name \o <<"_">> \o v.subvol

\* TryFrom<&str> for Volume.
Volume_try_from(value) ==
    LET tokens == split(value, "_")
    IN  IF Len(tokens) < 2 THEN Res("MissingSubvolume", Volume(<<>>, <<>>))
        ELSE Res("", Volume(tokens[1], tokens[2]))

\* A snapshot with any names and any instant, and a directory.
InitNames ==
    /\ snaps = [n \in {"A", "B"} |-> {}]
    /\ now = 0
    /\ \E n \in Strings(MaxName), sv \in Strings(MaxName), i \in BOOLEAN,
          t \in [secs : {0, 1}, nanos : {0, 1}], dir \in {<<"/", "a">>, <<"a", "/">>} :
          call = [op |-> "", arg |-> <<Snapshot(n, sv, i, t), dir>>, out |-> <<>>]

\* The snapshot is printed and parsed again.
TryFromStr ==
    /\ call.op = ""
    /\ call' = [call EXCEPT !.op = "Snapshot::try_from(&str)",
                            !.out = <<Snapshot_try_from(Snapshot_to_string(call.arg[1]))>>]
    /\ UNCHANGED <<snaps, now, fs>>
    /\ UNCHANGED nonCat

\* The snapshot is printed, joined to the directory and parsed from the path.
TryFromPath ==
    /\ call.op = ""
    /\ call' = [call EXCEPT !.op = "Snapshot::try_from(&Path)",
                            !.out = <<Snapshot_try_from_path(
                                        join(call.arg[2], Snapshot_to_string(call.arg[1])))>>]
    /\ UNCHANGED <<snaps, now, fs>>
    /\ UNCHANGED nonCat

\* The volume of the snapshot is printed and parsed again.
VolumeTryFrom ==
    /\ call.op = ""
    /\ call' = [call EXCEPT !.op = "Volume::try_from(&str)",
                            !.out = <<Volume_try_from(Volume_to_string(
                                        Volume(call.arg[1].node_name, call.arg[1].subvol)))>>]
    /\ UNCHANGED <<snaps, now, fs>>
    /\ UNCHANGED nonCat

NextNames == TryFromStr \/ TryFromPath \/ VolumeTryFrom

(***************************************************************************)
(* LocalNode::all_snapshots (proto.rs 443-463) as a scan of the snapshot   *)
(* directory: the entries are file names, and the node is named A and owns *)
(* the subvolumes h and d.                                                 *)
(***************************************************************************)
ScanSubvols == {<<"h">>, <<"d">>}

\* The names the snapshot directory may hold: snapshots of the node, a
\* snapshot that carries the name of node X, and two names that are no
\* snapshot names.
ScanEntries ==
    {Snapshot_to_string(Snapshot(<<"A">>, <<"h">>, FALSE, [secs |-> 0, nanos |-> 0])),
     Snapshot_to_string(Snapshot(<<"A">>, <<"h">>, TRUE, [secs |-> 1, nanos |-> 0])),
     Snapshot_to_string(Snapshot(<<"A">>, <<"d">>, FALSE, [secs |-> 1, nanos |-> 0])),
     Snapshot_to_string(Snapshot(<<"X">>, <<"h">>, FALSE, [secs |-> 1, nanos |-> 0])),
     <<"a">>,
     <<"A", "_", "h", "_", "x", "_", "1">>}

\* The subvolume argument: None, or Some of a name.
ScanFilters == {Res("None", <<>>), Res("", <<"h">>), Res("", <<"z">>)}

\* The results all_snapshots can return on the entries: read_dir yields
\* them in no fixed order, and the first entry that does not parse ends the
\* call with its error.
all_snapshots_of_dir(subvols, entries, subvol) ==
    LET parsed == {Snapshot_try_from(name) : name \in entries}
        errs == {r.err : r \in parsed} \ {""}
    IN  IF subvol.err = "" /\ subvol.val \notin subvols
        THEN {Res("ForeignSubvolume", {})}
        ELSE IF errs # {} THEN {Res(e, {}) : e \in errs}
        ELSE {Res("", {r.val : r \in {q \in parsed :
                                         subvol.err = "" => q.val.subvol = subvol.val}})}

InitScan ==
    /\ snaps = [n \in {"A", "B"} |-> {}]
    /\ now = 0
    /\ \E entries \in SUBSET ScanEntries, subvol \in ScanFilters :
          call = [op |-> "", arg |-> <<entries, subvol>>, out |-> <<>>]

\* all_snapshots on the directory.
Scan ==
    /\ call.op = ""
    /\ \E r \in all_snapshots_of_dir(ScanSubvols, call.arg[1], call.arg[2]) :
          call' = [call EXCEPT !.op = "all_snapshots", !.out = <<r>>]
    /\ UNCHANGED <<snaps, now, fs>>
    /\ UNCHANGED nonCat

NextScan == Scan

(***************************************************************************)
(* The catalogue over time: node A takes and deletes snapshots of its      *)
(* subvolume (hbak main.rs 274-295, proto.rs 401-440 and 849-871), node B  *)
(* receives, finalizes and deletes backups with the rx_setup and rx_finish *)
(* of hbakd.                                                               *)
(***************************************************************************)
NoCall == [op |-> "", arg |-> <<>>, out |-> <<>>]

CatParked ==
    /\ snaps = [n \in {"A", "B"} |-> {}]
    /\ now = 0
    /\ call = NoCall

\* Utc::now() moves on by a second.
Tick ==
    /\ now < MaxTime
    /\ now' = now + 1
    /\ UNCHANGED <<snaps, call, fs>>
    /\ UNCHANGED nonCat

\* LocalNode::snapshot_now as hbak snapshot [--incremental] calls it: the
\* name of the new snapshot carries the second it was taken in.  The call
\* fails, and changes nothing, on a subvolume of another node
\* (ForeignSubvolume) and on a name that exists (SnapshotExists).
snapshot_now(n, subvol, is_incremental) ==
    LET snapshot == Snapshot(n, subvol, is_incremental, now)
    IN  /\ owns_subvol(n, subvol)
        /\ snapshot \notin snaps[n]
        /\ snaps' = [snaps EXCEPT ![n] = @ \cup {snapshot}]
        /\ UNCHANGED <<now, call, fs>>
        /\ UNCHANGED nonCat

\* LocalNode::delete on a snapshot of the node itself: btrfs subvolume
\* delete, which fails on a snapshot that does not exist.
delete(n, s) ==
    /\ s.node_name = n
    /\ s \in snaps[n]
    /\ snaps' = [snaps EXCEPT ![n] = @ \ {s}]
    /\ UNCHANGED <<now, call, fs>>
    /\ UNCHANGED nonCat

\* rx_setup of hbakd on a Replicate for s: the checks, then File::create.
Accept(e, s) ==
    LET n == node_of(e)
    IN  /\ rx_setup_check(e, fs[n], s) = ""
        /\ fs' = [fs EXCEPT ![n] = File_create(@, streaming_path(s)).fs]
        /\ UNCHANGED <<snaps, now, call>>
        /\ UNCHANGED nonCat

\* rx_finish of hbakd on the End of a reception; a reception that is
\* aborted never gets here and leaves its .part file behind.
Finalize(e, s) ==
    LET n == node_of(e)
    IN  /\ rx_finish(fs[n], s).ok
        /\ fs' = [fs EXCEPT ![n] = rx_finish(@, s).fs]
        /\ UNCHANGED <<snaps, now, call>>
        /\ UNCHANGED nonCat

\* The snapshots of node A that are pushed to node B.
Received == {sA1, sA2, Snapshot("A", "home", TRUE, 3)}

InitCatalogue ==
    /\ snaps = [n \in {"A", "B"} |-> {}]
    /\ now = 1
    /\ call = NoCall

NextCatalogue ==
    \/ Tick
    \/ \E i \in BOOLEAN : snapshot_now("A", "home", i)
    \/ \E s \in Snapshots : delete("A", s)
    \/ \E s \in Received : Accept("server", s)
    \/ \E s \in Received : Finalize("server", s)

(***************************************************************************)
(* What is queued for the peer once meta_sync has returned its SyncInfo:   *)
(* sync (hbak main.rs 394-414) and handle_client (hbakd main.rs 186-225).  *)
(* The result is the set of snapshots queued, or the first error.          *)
(***************************************************************************)
\* A sync that queues the full snapshots only.
sync_tx_FullOnly(ln, remote_sync_info, push, cli_push) ==
    LET vols == {v \in DOMAIN remote_sync_info :
                    v \in push /\ (cli_push = {} \/ v \in cli_push)}
        full(v) == all_after(ln, v, FALSE, remote_sync_info[v].last_full)
    IN  Res("", UNION {full(v).val : v \in vols})

\* sync: push is RemoteNode::push, cli_push the volumes named on the command
\* line (none: all).
sync_tx(ln, remote_sync_info, push, cli_push) ==
    LET vols == {v \in DOMAIN remote_sync_info :
                    v \in push /\ (cli_push = {} \/ v \in cli_push)}
        full(v) == all_after(ln, v, FALSE, remote_sync_info[v].last_full)
        incr(v) == all_after(ln, v, TRUE, remote_sync_info[v].last_incremental)
        queued == UNION {full(v).val \cup incr(v).val : v \in vols}
        errs == ({full(v).err : v \in vols} \cup {incr(v).err : v \in vols}
                    \cup {export(ln, s) : s \in queued}) \ {""}
    IN  IF errs # {} THEN Res(CHOOSE e \in errs : TRUE, {}) ELSE Res("", queued)

\* A handler that sends every full backup the peer presents no tip for.
\* A server that serves every volume the peer names.
tx_volumes_All(remote_sync_info, pull, remote) == DOMAIN remote_sync_info

\* hbakd main.rs 187-189: the volumes of the peer's SyncInfo that the grant
\* lets it pull or that are its own.
tx_volumes(remote_sync_info, pull, remote) ==
    {v \in DOMAIN remote_sync_info : v \in pull \/ v.node_name = remote}

\* A threshold that looks at the tips of the peer alone.
restore_after_TipsOnly(last_full, latest_taken, last_incremental) ==
    IF last_full >= last_incremental THEN last_full ELSE last_incremental

\* hbakd main.rs 209-215: cmp::max of the peer's last_full, the taken of the
\* latest full backup held, and the peer's last_incremental.
restore_after(last_full, latest_taken, last_incremental) ==
    LET ts == {last_full, latest_taken, last_incremental}
    IN  CHOOSE t \in ts : \A u \in ts : u <= t

handle_client_tx_AllFull(ln, remote_sync_info, pull, remote) ==
    sync_tx(ln, remote_sync_info, DOMAIN remote_sync_info, {})

\* handle_client: pull is RemoteNodeAuth::pull, remote the name of the peer.
\* Of a volume the peer owns only the latest full backup is sent, and the
\* incremental backups after it.
handle_client_tx(ln, remote_sync_info, pull, remote) ==
    LET vols == tx_volumes(remote_sync_info, pull, remote)
        tips(v) == remote_sync_info[v]
        latest(v) == latest_backup_full(ln, v)
        after(v) == restore_after(tips(v).last_full, latest(v).val.taken,
                                  tips(v).last_incremental)
        full(v) == IF v.node_name = remote
                   THEN Res(latest(v).err,
                            IF latest(v).err = "" /\ latest(v).val.taken > tips(v).last_full
                            THEN {latest(v).val} ELSE {})
                   ELSE all_after(ln, v, FALSE, tips(v).last_full)
        incr(v) == IF v.node_name = remote
                   THEN Res(latest(v).err,
                            {s \in all_backups(ln.dir, v) :
                                s.is_incremental /\ s.taken > after(v)})
                   ELSE all_after(ln, v, TRUE, tips(v).last_incremental)
        queued == UNION {full(v).val \cup incr(v).val : v \in vols}
        errs == ({full(v).err : v \in vols} \cup {incr(v).err : v \in vols}
                    \cup {export(ln, s) : s \in queued}) \ {""}
    IN  IF errs # {} THEN Res(CHOOSE e \in errs : TRUE, {}) ELSE Res("", queued)

\* The SyncInfo values a peer may present: no volume, one with any tips, or
\* every volume with the tips of a node that holds nothing.
SyncInfos ==
    {NoSyncInfo, [v \in {VolA, VolB, VolX} |-> [last_full |-> 0, last_incremental |-> 0]]}
        \cup
    {[v \in {vol} |-> [last_full |-> f, last_incremental |-> i]] :
        vol \in {VolA, VolB, VolX}, f \in 0..MaxTime, i \in 0..MaxTime}

\* Any catalogue of node A, and node B holding backups of A's volume.
InitPlan ==
    /\ \E own \in SUBSET {s \in Snapshots : is_of_volume(s, VolA)} :
          snaps = [n \in {"A", "B"} |-> IF n = "A" THEN own ELSE {sB1}]
    /\ now = MaxTime
    /\ call = NoCall

\* hbak synchronize on node A.
PlanSync ==
    /\ call.op = ""
    /\ \E info \in SyncInfos, cli \in {{}, {VolA}, {VolB}} :
          call' = [op |-> "sync", arg |-> <<info, cli>>,
                   out |-> <<sync_tx(LocalNode("A"), info, {VolA}, cli)>>]
    /\ UNCHANGED <<snaps, now, fs>>
    /\ UNCHANGED nonCat

\* handle_client of the hbakd on node B, for the peer node A.
PlanServe ==
    /\ call.op = ""
    /\ \E info \in SyncInfos :
          call' = [op |-> "handle_client", arg |-> <<info>>,
                   out |-> <<handle_client_tx(LocalNode("B"), info, {VolB}, "A")>>]
    /\ UNCHANGED <<snaps, now, fs>>
    /\ UNCHANGED nonCat

\* LocalNode::parent_of on node A, for any snapshot name.
PlanParent ==
    /\ call.op = ""
    /\ \E child \in Snapshots :
          call' = [op |-> "parent_of", arg |-> <<child>>,
                   out |-> <<parent_of(LocalNode("A"), child)>>]
    /\ UNCHANGED <<snaps, now, fs>>
    /\ UNCHANGED nonCat

\* LocalNode::restore on node A, for one of its subvolumes or another one.
PlanRestore ==
    /\ call.op = ""
    /\ \E subvol \in {"home", "data"}, present \in BOOLEAN, ignore_fstab \in BOOLEAN :
          call' = [op |-> "restore", arg |-> <<subvol, present, ignore_fstab>>,
                   out |-> <<restore(LocalNode("A"), subvol, present, ignore_fstab)>>]
    /\ UNCHANGED <<snaps, now, fs>>
    /\ UNCHANGED nonCat

NextPlan == PlanSync \/ PlanServe \/ PlanParent \/ PlanRestore

(***************************************************************************)
(* A push session from data_sync on: sync (hbak main.rs 356-458) of node A *)
(* against handle_client (hbakd main.rs 161-275) of node B.  meta_sync has *)
(* handed each side the SyncInfo of the other, and sync has queued what    *)
(* sync_tx says, the full snapshots of a volume before the incremental     *)
(* ones, each kind in the order read_dir lists it.                         *)
(***************************************************************************)
\* Every order in which the snapshots of S can be listed.
RECURSIVE Orders(_)
Orders(S) ==
    IF S = {} THEN {<<>>}
    ELSE UNION {{<<s>> \o o : o \in Orders(S \ {s})} : s \in S}

\* The tx vectors sync may build of the queued snapshots, one chunk each.
tx_batches(queued) ==
    {[i \in 1..Len(o) |-> Item(o[i], 1)] :
        o \in {f \o i : f \in Orders({s \in queued : ~s.is_incremental}),
                         i \in Orders({s \in queued : s.is_incremental})}}

\* What node A holds of its volume, and what node B holds of it.
PushCatalogues ==
    {{}, {sA1}, {sA1, sA2}, {sA1, sA2, Snapshot("A", "home", TRUE, 3)},
     {sA1, sA2, Snapshot("A", "home", FALSE, 2), Snapshot("A", "home", TRUE, 3)}}

InitPush ==
    /\ \E own \in PushCatalogues :
          snaps = [n \in {"A", "B"} |-> IF n = "A" THEN own ELSE {}]
    /\ now = MaxTime
    /\ \E held \in {<<>>, <<sA1>>, <<sA1, sA2>>} :
          fs = [n \in {"A", "B"} |-> IF n = "B" THEN DirWith(held) ELSE EmptyDir]
    /\ sess = [e \in Endpoints |->
                 IF e \in Sides
                 THEN [NoSess EXCEPT !.pc = "loop",
                                     !.remote_sync_info = local_sync_info(peer_of(e))]
                 ELSE NoSess]
    /\ LET plan == sync_tx(LocalNode("A"), sess["client"].remote_sync_info, {VolA}, {})
       IN  /\ plan.err = ""
           /\ call = [op |-> "sync", arg |-> <<sess["client"].remote_sync_info, {}>>,
                      out |-> <<plan>>]
           /\ \E batch \in tx_batches(plan.val) :
                 tx = [e \in Endpoints |->
                         IF e = "client" THEN [NoTx EXCEPT !.pc = "next", !.batch = batch]
                         ELSE IF e = "server" THEN [NoTx EXCEPT !.pc = "next"]
                         ELSE NoTx]
    /\ rx = [e \in Endpoints |-> IF e \in Sides THEN [NoRx EXCEPT !.pc = "recv"] ELSE NoRx]
    /\ start_streaming = [e \in Endpoints |-> FALSE]
    /\ local_done = [e \in Endpoints |-> FALSE]
    /\ chan = [e \in Endpoints |-> <<>>]
    /\ aead = [e \in Endpoints |->
                 IF e \in Sides THEN [new_aead(conn[e]) EXCEPT !.enc = 1, !.dec = 1]
                 ELSE NoAead]
    /\ pend = [e \in Endpoints |-> [t \in Threads |-> NoFrame]]
    /\ hist = [e \in Endpoints |-> NoHist]
    /\ injected = FALSE

NextPush == \E e \in Sides : DataSyncStep(e)

(***************************************************************************)
(* Push sessions of hbak against hbakd, one after the other, an item of tx *)
(* a step.  sync builds tx from the tips hbakd reports in meta_sync (hbak  *)
(* main.rs 377-414); data_sync sends the items in the order of tx, and     *)
(* hbakd receives each with rx_setup and rx_finish (hbakd main.rs 234-270).*)
(* A session ends Ok when tx is used up, or with an error between two      *)
(* items or inside one.  call.arg is what is left of tx, call.out the      *)
(* results of the sessions so far.                                         *)
(***************************************************************************)
MaxSessions == 3

InitRetry ==
    /\ \E own \in PushCatalogues \ {{}} :
          snaps = [n \in {"A", "B"} |-> IF n = "A" THEN own ELSE {}]
    /\ now = MaxTime
    /\ call = NoCall

\* sync up to the call of data_sync.
PushBegin ==
    /\ call.op = ""
    /\ Len(call.out) < MaxSessions
    /\ LET remote_sync_info == [v \in {VolA} |-> latest_snapshots(fs["B"], v)]
           plan == sync_tx(LocalNode("A"), remote_sync_info, {VolA}, {})
       IN  /\ plan.err = ""
           /\ \E batch \in tx_batches(plan.val) :
                 call' = [call EXCEPT !.op = "push", !.arg = batch]
    /\ UNCHANGED <<snaps, now, fs>>
    /\ UNCHANGED nonCat

\* One item from Replicate to End(Ok): hbakd creates the .part file, writes
\* the chunks and renames the file.
PushItem ==
    /\ call.op = "push"
    /\ call.arg # <<>>
    /\ LET s == Head(call.arg).snapshot
           c == File_create(fs["B"], streaming_path(s))
       IN  /\ rx_setup_check("server", fs["B"], s) = ""
           /\ fs' = [fs EXCEPT !["B"] =
                        rx_finish(File_write(c.fs, c.ino, <<<<"client", 0>>>>), s).fs]
    /\ call' = [call EXCEPT !.arg = Tail(@)]
    /\ UNCHANGED <<snaps, now>>
    /\ UNCHANGED nonCat

\* The session fails: before the next Replicate, or inside the item, when
\* hbakd has created the .part file and never renames it.
PushCut ==
    /\ call.op = "push"
    /\ call.arg # <<>>
    /\ \E inside \in BOOLEAN :
          LET s == Head(call.arg).snapshot
          IN  fs' = IF inside /\ rx_setup_check("server", fs["B"], s) = ""
                    THEN [fs EXCEPT !["B"] = File_create(@, streaming_path(s)).fs]
                    ELSE fs
    /\ call' = [call EXCEPT !.op = "", !.arg = <<>>, !.out = Append(@, "Io")]
    /\ UNCHANGED <<snaps, now>>
    /\ UNCHANGED nonCat

\* tx is used up: both sides send Done and data_sync returns Ok.
PushEnd ==
    /\ call.op = "push"
    /\ call.arg = <<>>
    /\ call' = [call EXCEPT !.op = "", !.out = Append(@, "Ok")]
    /\ UNCHANGED <<snaps, now, fs>>
    /\ UNCHANGED nonCat

NextRetry == PushBegin \/ PushItem \/ PushCut \/ PushEnd

(***************************************************************************)
(* data_sync with readers that may fail: r.read in send_chunk (conn.rs     *)
(* 464) returns an error, `?` leaves send_chunk and then the closure of    *)
(* the transmit thread (conn.rs 487).                                      *)
(***************************************************************************)
TxReadFail(e) ==
    /\ tx[e].pc = "chunk"
    /\ Ready(e, "tx")
    /\ tx' = [tx EXCEPT ![e] = [@ EXCEPT !.pc = "done", !.result = "Io"]]
    /\ UNCHANGED <<sess, rx, start_streaming, local_done, chan, aead, pend, fs, hist, injected>>
    /\ UNCHANGED nonSync

NextReadFail == NextPush \/ \E e \in Sides : TxReadFail(e)

(***************************************************************************)
(* data_sync with receptions that are cut off: by a reader that fails, by  *)
(* a sink that fails, by a peer that sends End(Err ..) or Error, or any    *)
(* other message out of place, and by the loss of the connection when the  *)
(* peer has returned.                                                      *)
(***************************************************************************)
\* The Chunk arm of handle when write_all fails (conn.rs 426-432); what the
\* failed write has left in the file is not modelled.
RxWriteFail(e) ==
    /\ rx[e].pc = "recv"
    /\ Ready(e, "rx")
    /\ chan[e] # <<>>
    /\ decrypts(aead[e], Head(chan[e]))
    /\ Head(chan[e]).msg.type = "Chunk"
    /\ rx[e].stream.open
    /\ chan' = [chan EXCEPT ![e] = Tail(@)]
    /\ rx' = [rx EXCEPT ![e] = rx_return(@, "Io")]
    /\ pend' = [pend EXCEPT ![e]["rx"] = seal(aead[e], Error("RxError"))]
    /\ aead' = [aead EXCEPT ![e].dec = @ + 1, ![e].enc = @ + 1]
    /\ UNCHANGED <<sess, tx, start_streaming, local_done, fs, hist, injected>>
    /\ UNCHANGED nonSync

\* The peer of e gives up a transfer: it sends End(Err ..) or Error.
InjectErr(e) ==
    /\ ~injected
    /\ sess[peer_of(e)].pc \notin {"parked", "done"}
    /\ \E m \in {End("RxError"), Error("RxError")} :
          chan' = [chan EXCEPT ![e] = Append(@, seal(aead[peer_of(e)], m))]
    /\ aead' = [aead EXCEPT ![peer_of(e)].enc = @ + 1]
    /\ injected' = TRUE
    /\ UNCHANGED <<sess, tx, rx, start_streaming, local_done, pend, fs, hist>>
    /\ UNCHANGED nonSync

NextAbort ==
    \/ NextReadFail
    \/ \E e \in Sides : RxWriteFail(e)
    \/ \E e \in Sides : InjectErr(e)

(***************************************************************************)
(* data_sync in both directions at once: node A pushes its volume while    *)
(* node B sends a snapshot of its own, both backup directories are empty   *)
(* so that every rx_setup and rx_finish succeeds, every frame written is   *)
(* delivered, and each of the three threads of either side (conn.rs 478,   *)
(* 492, 525) is scheduled again and again.                                 *)
(***************************************************************************)
(***************************************************************************)
(* The receive side of restore (hbak main.rs 460-558): the sink rx_setup   *)
(* returns is the RecoveryStream of LocalNode::recover (proto.rs 763-784), *)
(* which writes into the stdin of a `btrfs receive` child, and rx_finish   *)
(* waits for that child.  The server sends the stored ciphertext of sA1,   *)
(* whole, cut short or with its last byte changed, in chunks of 16 +       *)
(* CHUNKSIZE bytes, then End and Done; the client has nothing to send.     *)
(***************************************************************************)
InitRestore ==
    /\ InitCrypto
    /\ sess = [e \in Endpoints |->
                 IF e = "client" THEN [NoSess EXCEPT !.pc = "loop"] ELSE NoSess]
    /\ tx = [e \in Endpoints |-> IF e = "client" THEN [NoTx EXCEPT !.pc = "next"] ELSE NoTx]
    /\ rx = [e \in Endpoints |-> IF e = "client" THEN [NoRx EXCEPT !.pc = "recv"] ELSE NoRx]
    /\ start_streaming = [e \in Endpoints |-> FALSE]
    /\ local_done = [e \in Endpoints |-> FALSE]
    /\ chan = [e \in Endpoints |-> <<>>]
    /\ aead = [e \in Endpoints |->
                 IF e = "client" THEN [new_aead(conn[e]) EXCEPT !.enc = 1, !.dec = 1]
                 ELSE NoAead]
    /\ pend = [e \in Endpoints |-> [t \in Threads |-> NoFrame]]
    /\ fs = [n \in {"A", "B"} |-> EmptyDir]
    /\ hist = [e \in Endpoints |-> NoHist]
    /\ injected = FALSE
    /\ CatParked

\* The stored ciphertext reaches the client with the last byte of its last
\* authentication tag changed.
Corrupt ==
    /\ cphase = "cut"
    /\ input' = [wire EXCEPT ![Len(wire)].v = 1]
    /\ cphase' = "feed"
    /\ UNCHANGED <<plain, sstream, wire, fed, rstream, rresult>>
    /\ UNCHANGED nonCrypto

\* What is unchanged by the steps of the receive thread below.
RestoreFrame ==
    /\ UNCHANGED <<plain, sstream, wire, input>>
    /\ UNCHANGED <<tx, start_streaming, local_done, chan, fs, hist, injected, snaps, now>>
    /\ UNCHANGED <<authVars, daemon, stream_read>>

\* The Chunk arm of handle (conn.rs 425-436) on the next chunk: write_all
\* into the RecoveryStream.
RestoreChunk ==
    /\ cphase = "feed"
    /\ rx["client"].pc = "recv"
    /\ fed < Len(input)
    /\ LET n == Min(TAGLEN + CHUNKSIZE, Len(input) - fed)
           r == RecoveryStream_write(rstream, SubSeq(input, fed + 1, fed + n))
       IN  /\ rstream' = r.rs
           /\ fed' = fed + n
           /\ rresult' = [rresult EXCEPT !.write = IF r.ok THEN "Ok" ELSE "Err"]
           /\ IF r.ok
              THEN UNCHANGED <<rx, pend, aead>>
              ELSE /\ Send("client", "rx", Error("RxError"))
                   /\ rx' = [rx EXCEPT !["client"] = rx_return(@, "Io")]
    /\ UNCHANGED <<cphase, sess, call>>
    /\ RestoreFrame

\* The End arm of handle (conn.rs 437-450) on End(Ok): the RecoveryStream
\* is dropped, which closes it and ignores what close returns (stream.rs
\* 225-229); rx_finish prints that the snapshot was received and then
\* waits for the child, whose exit status decides.  `btrfs receive` is not
\* part of the program: it may accept or reject what it has read.
RestoreEnd ==
    /\ cphase = "feed"
    /\ rx["client"].pc = "recv"
    /\ fed = Len(input)
    /\ LET r == RecoveryStream_close(rstream)
       IN  /\ rstream' = r.rs
           /\ rresult' = [rresult EXCEPT !.close = IF r.ok THEN "Ok" ELSE "Err"]
    /\ cphase' = "closed"
    /\ \E success \in BOOLEAN :
          /\ call' = [op |-> "rx_finish", arg |-> <<sA1>>,
                      out |-> <<"Received", IF success THEN "" ELSE "RxError">>]
          /\ IF success
             THEN UNCHANGED <<rx, pend, aead>>
             ELSE /\ Send("client", "rx", Error("RxError"))
                  /\ rx' = [rx EXCEPT !["client"] = rx_return(@, RemoteError("RxError"))]
    /\ UNCHANGED <<fed, sess>>
    /\ RestoreFrame

\* The Done arm of handle (conn.rs 451).
RestoreDone ==
    /\ cphase = "closed"
    /\ rx["client"].pc = "recv"
    /\ ~rx["client"].remote_done
    /\ rx' = [rx EXCEPT !["client"].remote_done = TRUE]
    /\ UNCHANGED <<fed, rstream, cphase, rresult, sess, pend, aead, call>>
    /\ RestoreFrame

NextRestore ==
    \/ SsRead
    \/ Truncate
    \/ Corrupt
    \/ RestoreChunk
    \/ RestoreEnd
    \/ RestoreDone
    \/ TxNext("client")
    \/ RxExit("client")
    \/ SupJoinTx("client")
    \/ SupJoinRx("client")
    \/ SupBreak("client")
    \/ DataSyncReturn("client")
    \/ \E t \in Threads : Write("client", t)

InitDataSync(held) ==
    /\ fs = [n \in {"A", "B"} |-> IF n = "B" THEN DirWith(held) ELSE EmptyDir]
    /\ sess = [e \in Endpoints |->
                 IF e \in Sides
                 THEN [NoSess EXCEPT !.pc = "loop",
                                     !.remote_sync_info = local_sync_info(peer_of(e))]
                 ELSE NoSess]
    /\ \E cb \in Batches("client"), sb \in Batches("server") :
          tx = [e \in Endpoints |->
                  IF e = "client" THEN [NoTx EXCEPT !.pc = "next", !.batch = cb]
                  ELSE IF e = "server" THEN [NoTx EXCEPT !.pc = "next", !.batch = sb]
                  ELSE NoTx]
    /\ rx = [e \in Endpoints |-> IF e \in Sides THEN [NoRx EXCEPT !.pc = "recv"] ELSE NoRx]
    /\ start_streaming = [e \in Endpoints |-> FALSE]
    /\ local_done = [e \in Endpoints |-> FALSE]
    /\ chan = [e \in Endpoints |-> <<>>]
    /\ aead = [e \in Endpoints |->
                 IF e \in Sides THEN [new_aead(conn[e]) EXCEPT !.enc = 1, !.dec = 1]
                 ELSE NoAead]
    /\ pend = [e \in Endpoints |-> [t \in Threads |-> NoFrame]]
    /\ hist = [e \in Endpoints |-> NoHist]
    /\ injected = FALSE

InitDuplex == InitDataSync(<<>>)

\* Node B already holds the backup sA1, so that its rx_setup fails with
\* Immutable when node A sends it again.
InitRefuse == InitDataSync(<<sA1>>)

\* The steps of the transmit thread, of the receive thread and of the
\* thread that called data_sync.
TxThread(e) == TxNext(e) \/ TxWait(e) \/ TxClear(e) \/ TxChunk(e) \/ Write(e, "tx")
RxThread(e) ==
    RxExit(e) \/ RxRecv(e) \/ RxCreate(e) \/ RxEof(e) \/ RxTimeout(e) \/ Write(e, "rx")
MainThread(e) ==
    SupJoinTx(e) \/ SupJoinRx(e) \/ SupBreak(e) \/ DataSyncReturn(e) \/ Write(e, "main")

\* No thread that can take a step is held back forever.
FairThreads ==
    \A e \in Sides : WF_vars(TxThread(e)) /\ WF_vars(RxThread(e)) /\ WF_vars(MainThread(e))

(***************************************************************************)
(* serve (hbakd main.rs 97-159): the listener, the should_exit flag that   *)
(* the signal handler sets, the client_threads counter and the handler     *)
(* threads.                                                                *)
(***************************************************************************)
\* The most connections that arrive.
MaxClients == 4

Handlers == 1..MaxClients

NoDaemon ==
    [pc |-> "parked", should_exit |-> FALSE, client_threads |-> 0,
     handler |-> [h \in Handlers |-> "none"], result |-> "running"]

DaemonParked == daemon = NoDaemon

\* Lines 98-119: the flag is clear, the counter is 0, the listener is bound.
InitDaemon == daemon = [NoDaemon EXCEPT !.pc = "accept"]

\* The handler threads that have been spawned and have not yet left.
Running == {h \in Handlers : daemon.handler[h] = "running"}

\* Lines 101-104: the handler of SIGINT, SIGTERM and SIGHUP.
Signal ==
    /\ ~daemon.should_exit
    /\ daemon' = [daemon EXCEPT !.should_exit = TRUE]
    /\ UNCHANGED nonDaemon

\* Lines 123-141: a connection is accepted; the counter is raised and the
\* handler thread spawned.
Accept_Ok ==
    /\ daemon.pc = "accept"
    /\ \E h \in Handlers :
          /\ daemon.handler[h] = "none"
          /\ \A g \in Handlers : g < h => daemon.handler[g] # "none"
          /\ daemon' = [daemon EXCEPT !.client_threads = @ + 1,
                                      !.handler[h] = "running"]
    /\ UNCHANGED nonDaemon

\* Line 124: the peer is gone before peer_addr is asked; `?` leaves serve.
Accept_NoPeerAddr ==
    /\ daemon.pc = "accept"
    /\ \E h \in Handlers : daemon.handler[h] = "none"
    /\ daemon' = [daemon EXCEPT !.pc = "returned", !.result = "Io"]
    /\ UNCHANGED nonDaemon

\* Lines 143-149: no connection is waiting; break if the flag is set, else
\* sleep and accept again.
Accept_WouldBlock ==
    /\ daemon.pc = "accept"
    /\ daemon' = [daemon EXCEPT !.pc = IF daemon.should_exit THEN "drain" ELSE @]
    /\ UNCHANGED nonDaemon

\* Line 150: accept fails with any other error.
Accept_Err ==
    /\ daemon.pc = "accept"
    /\ daemon' = [daemon EXCEPT !.pc = "returned", !.result = "Io"]
    /\ UNCHANGED nonDaemon

\* Lines 131-140 in the handler thread: handle_client returns, the counter
\* is lowered, the thread ends.
HandlerEnd(h) ==
    /\ daemon.handler[h] = "running"
    /\ daemon.pc # "returned"
    /\ daemon' = [daemon EXCEPT !.client_threads = @ - 1,
                                !.handler[h] = "finished"]
    /\ UNCHANGED nonDaemon

\* Lines 154-158: sleep while the counter is above 0, then return Ok.
Drain ==
    /\ daemon.pc = "drain"
    /\ daemon' = [daemon EXCEPT !.pc = IF daemon.client_threads > 0 THEN @ ELSE "returned",
                                !.result = IF daemon.client_threads > 0 THEN @ ELSE "Ok"]
    /\ UNCHANGED nonDaemon

NextDaemon ==
    \/ Signal
    \/ Accept_Ok
    \/ Accept_NoPeerAddr
    \/ Accept_WouldBlock
    \/ Accept_Err
    \/ \E h \in Handlers : HandlerEnd(h)
    \/ Drain

(***************************************************************************)
(* StreamConn::recv_message (conn.rs 316-326) on the bytes of the socket.  *)
(* A frame is a bincode RawMessage: the length of the ciphertext and then  *)
(* its bytes.  deserialize_from reads them with read_exact from the        *)
(* BufReader over a socket whose reads time out after READ_TIMEOUT; a      *)
(* read_exact that fails has consumed what it has read so far.             *)
(***************************************************************************)
MaxFrames == 2
MaxBody == 2
\* The units in which the length of a RawMessage arrives.
HdrLen == 2

\* The bytes of the k-th frame the peer writes, with a ciphertext of len.
FrameBytes(k, len) == [i \in 1..(HdrLen + len) |-> <<k, i>>]

NoStreamRead ==
    [frames |-> <<>>, net |-> <<>>, avail |-> <<>>, part |-> <<>>, need |-> 0,
     delivered |-> <<>>, dec |-> 0, result |-> "parked"]

StreamReadParked == stream_read = NoStreamRead

InitRecv == stream_read = [NoStreamRead EXCEPT !.result = "running"]

\* The peer's send_message writes and flushes one frame (conn.rs 309-311).
PeerWrite ==
    /\ stream_read.result = "running"
    /\ Len(stream_read.frames) < MaxFrames
    /\ \E len \in 1..MaxBody :
          stream_read' = [stream_read EXCEPT
              !.frames = Append(@, len),
              !.net = @ \o FrameBytes(Len(stream_read.frames) + 1, len)]
    /\ UNCHANGED <<authVars, cryptoVars, syncVars, catVars, daemon>>

\* The network delivers the next byte to the socket of the reader.
Arrive ==
    /\ stream_read.result = "running"
    /\ stream_read.net # <<>>
    /\ stream_read' = [stream_read EXCEPT !.net = Tail(@),
                                          !.avail = Append(@, Head(stream_read.net))]
    /\ UNCHANGED <<authVars, cryptoVars, syncVars, catVars, daemon>>

\* The length a RawMessage announces: that of the frame whose length field
\* has been read, or any length when the bytes read are no length field.
announced(hdr) ==
    IF \E k \in DOMAIN stream_read.frames : hdr = [i \in 1..HdrLen |-> <<k, i>>]
    THEN {stream_read.frames[hdr[1][1]]}
    ELSE 1..MaxBody

\* decrypt_next (conn.rs 319-323) on a ciphertext read from the socket: it
\* opens the frame that was sealed with the counter of the decryptor.
opens(ciphertext, dec) ==
    /\ dec + 1 \in DOMAIN stream_read.frames
    /\ ciphertext = FrameBytes(dec + 1, stream_read.frames[dec + 1])

\* deserialize_from (conn.rs 317-318) consumes the next byte that has
\* arrived; with the last byte of the RawMessage recv_message decrypts and
\* the loop of data_sync hands the message to handle.
RecvTake ==
    /\ stream_read.result = "running"
    /\ stream_read.avail # <<>>
    /\ LET part == Append(stream_read.part, Head(stream_read.avail))
       IN  \E need \in (IF Len(part) < HdrLen THEN {0}
                         ELSE IF Len(part) = HdrLen THEN announced(part)
                         ELSE {stream_read.need}) :
              stream_read' =
                  IF need = 0 \/ Len(part) < HdrLen + need
                  THEN [stream_read EXCEPT !.avail = Tail(@), !.part = part, !.need = need]
                  ELSE IF opens(part, stream_read.dec)
                  THEN [stream_read EXCEPT !.avail = Tail(@), !.part = <<>>, !.need = 0,
                                           !.delivered = Append(@, part[1][1]),
                                           !.dec = @ + 1]
                  ELSE [stream_read EXCEPT !.avail = Tail(@), !.part = <<>>, !.need = 0,
                                           !.result = "ChaCha20Poly1305"]
    /\ UNCHANGED <<authVars, cryptoVars, syncVars, catVars, daemon>>

\* Nothing arrives within READ_TIMEOUT: read_exact fails with WouldBlock,
\* deserialize_from returns the error and drops what it has read, and the
\* receive loop continues with a new recv_message (conn.rs 499-504).
RecvTimeout ==
    /\ stream_read.result = "running"
    /\ stream_read.avail = <<>>
    /\ stream_read' = [stream_read EXCEPT !.part = <<>>, !.need = 0]
    /\ UNCHANGED <<authVars, cryptoVars, syncVars, catVars, daemon>>

NextRecv == PeerWrite \/ Arrive \/ RecvTake \/ RecvTimeout

\* The main thread of each side in meta_sync runs on.
FairMeta ==
    \A e \in Sides :
        WF_vars(MetaSend(e) \/ MetaRecv(e) \/ MetaRecvFail(e) \/ Write(e, "main"))

(***************************************************************************)
(* Specifications.                                                         *)
(***************************************************************************)
InitSpecAuth == InitAuth /\ CryptoParked /\ SyncParked /\ CatParked /\ DaemonParked /\ StreamReadParked

SpecAuth == InitSpecAuth /\ [][NextAuth]_vars

AuthParked ==
    /\ authConn = [pc |-> "done", node_name |-> "", passphrase |-> "",
                   challenge |-> "", nonce |-> "", key |-> NoKey, result |-> "parked"]
    /\ authServ = [pc |-> "done", challenge |-> "", nonce |-> "",
                   key |-> NoKey, client_proof |-> NoProof, remote_node_name |-> "",
                   result |-> "parked"]
    /\ c2s = <<>>
    /\ s2c = <<>>
    /\ sent = [s \in Sides |-> <<>>]
    /\ rcvd = [s \in Sides |-> <<>>]
    /\ conn = [s \in Sides |-> NoConn]
    /\ tampered = 0

InitSpecCrypto == AuthParked /\ InitCrypto /\ SyncParked /\ CatParked /\ DaemonParked /\ StreamReadParked

SpecCrypto == InitSpecCrypto /\ [][NextCrypto]_vars

\* The handshake of node A with the right passphrase has succeeded on both
\* sides, untouched by the attacker.
AuthEstablished ==
    /\ authConn = [pc |-> "done", node_name |-> "A", passphrase |-> "good",
                   challenge |-> "Cc", nonce |-> "N", key |-> Grant.key,
                   result |-> "Ok"]
    /\ authServ = [pc |-> "done", challenge |-> "Cs", nonce |-> "N",
                   key |-> Grant.key, client_proof |-> hash_hmac(Grant.key, "Cs"),
                   remote_node_name |-> "A", result |-> "Ok"]
    /\ c2s = <<>>
    /\ s2c = <<>>
    /\ sent = [s \in Sides |->
                 IF s = "client"
                 THEN <<Hello("A", "Cc", "N"), ClientAuthOk(hash_hmac(Grant.key, "Cs"))>>
                 ELSE <<ServerAuthOk("v1", "Cs", hash_hmac(Grant.key, "Cc")), EncryptOk>>]
    /\ rcvd = [s \in Sides |-> sent[IF s = "client" THEN "server" ELSE "client"]]
    /\ conn = [s \in Sides |-> try_from_conn(Grant.key, "N")]
    /\ tampered = 0

InitSpecSync == AuthEstablished /\ CryptoParked /\ InitSync /\ CatParked /\ DaemonParked /\ StreamReadParked

SpecSync == InitSpecSync /\ [][NextSync]_vars

SpecMeta == InitSpecSync /\ [][NextSync]_vars /\ FairMeta

InitSpecServe == AuthEstablished /\ CryptoParked /\ InitServe /\ CatParked /\ DaemonParked /\ StreamReadParked

SpecServe == InitSpecServe /\ [][NextServe]_vars

InitSpecSession == InitAuth /\ CryptoParked /\ InitSession /\ CatParked /\ DaemonParked /\ StreamReadParked

SpecSession == InitSpecSession /\ [][NextSession]_vars

InitSpecCatalogue == AuthParked /\ CryptoParked /\ SyncParked /\ InitCatalogue /\ DaemonParked /\ StreamReadParked

SpecCatalogue == InitSpecCatalogue /\ [][NextCatalogue]_vars

\* Node B holds nothing, an incremental backup without a full one, or two
\* full backups and the incremental ones around them.
InitSpecPlan ==
    /\ AuthParked /\ CryptoParked /\ InitPlan /\ DaemonParked /\ StreamReadParked
    /\ sess = [e \in Endpoints |-> NoSess]
    /\ tx = [e \in Endpoints |-> NoTx]
    /\ rx = [e \in Endpoints |-> NoRx]
    /\ start_streaming = [e \in Endpoints |-> FALSE]
    /\ local_done = [e \in Endpoints |-> FALSE]
    /\ chan = [e \in Endpoints |-> <<>>]
    /\ aead = [e \in Endpoints |-> NoAead]
    /\ pend = [e \in Endpoints |-> [t \in Threads |-> NoFrame]]
    /\ \E held \in {<<>>, <<sA2>>, <<sA1, sA2>>, <<sA1, sX1>>,
                     <<sA1, sA2, Snapshot("A", "home", FALSE, 2),
                       Snapshot("A", "home", TRUE, 3)>>} :
          fs = [n \in {"A", "B"} |-> IF n = "B" THEN DirWith(held) ELSE EmptyDir]
    /\ hist = [e \in Endpoints |-> NoHist]
    /\ injected = FALSE

SpecPlan == InitSpecPlan /\ [][NextPlan]_vars

InitSpecPush == AuthEstablished /\ CryptoParked /\ InitPush /\ DaemonParked /\ StreamReadParked

SpecPush == InitSpecPush /\ [][NextPush]_vars

InitSpecDuplex == AuthEstablished /\ CryptoParked /\ InitDuplex /\ CatParked /\ DaemonParked /\ StreamReadParked

SpecDuplex == InitSpecDuplex /\ [][NextPush]_vars /\ FairThreads

InitSpecRefuse == AuthEstablished /\ CryptoParked /\ InitRefuse /\ CatParked /\ DaemonParked /\ StreamReadParked

SpecRefuse == InitSpecRefuse /\ [][NextPush]_vars /\ FairThreads

InitSpecRestore == AuthEstablished /\ InitRestore /\ DaemonParked /\ StreamReadParked

SpecRestore == InitSpecRestore /\ [][NextRestore]_vars

SpecReadFail == InitSpecDuplex /\ [][NextReadFail]_vars

\* Node A pushes two snapshots, node B has nothing to send.
InitSpecAbort ==
    /\ InitSpecDuplex
    /\ tx["client"].batch = <<Item(sA1, 1), Item(sA2, 1)>>
    /\ tx["server"].batch = <<>>

SpecAbort == InitSpecAbort /\ [][NextAbort]_vars

InitSpecNames == AuthParked /\ CryptoParked /\ SyncParked /\ InitNames /\ DaemonParked /\ StreamReadParked

SpecNames == InitSpecNames /\ [][NextNames]_vars

InitSpecScan == AuthParked /\ CryptoParked /\ SyncParked /\ InitScan /\ DaemonParked /\ StreamReadParked

SpecScan == InitSpecScan /\ [][NextScan]_vars

InitSpecDaemon == AuthParked /\ CryptoParked /\ SyncParked /\ CatParked /\ InitDaemon /\ StreamReadParked

SpecDaemon == InitSpecDaemon /\ [][NextDaemon]_vars

InitSpecRetry ==
    AuthParked /\ CryptoParked /\ SyncParked /\ InitRetry /\ DaemonParked /\ StreamReadParked

SpecRetry == InitSpecRetry /\ [][NextRetry]_vars

InitSpecRecv ==
    AuthParked /\ CryptoParked /\ SyncParked /\ CatParked /\ DaemonParked /\ InitRecv

SpecRecv == InitSpecRecv /\ [][NextRecv]_vars

(***************************************************************************)
(* Claims about the streaming cipher, checked under SpecCrypto.            *)
(***************************************************************************)
\* How many trailing bytes of the ciphertext never reached the RecoveryStream.
Cut == Len(wire) - Len(input)

\* C9: writing the complete output of SnapshotStream(P, pw) into
\* RecoveryStream(pw) and closing it succeeds and emits exactly P.
C9_RoundTrip ==
    (cphase = "closed" /\ Cut = 0) =>
        /\ rresult.write # "Err"
        /\ rresult.close = "Ok"
        /\ rstream.inner = plain

\* C9 witness: a plaintext of exactly two full chunks went through whole.
C9_Witness ==
    /\ cphase = "closed"
    /\ Cut = 0
    /\ Len(plain) = 2 * CHUNKSIZE
    /\ Len(wire) = NONCELEN + 2 * (CHUNKSIZE + TAGLEN)
    /\ rstream.inner = plain

\* What does hold of truncation: if more than the nonce is left, close fails.
TruncationBeyondNonceFails ==
    (cphase = "closed" /\ Cut > 0 /\ Len(input) > NONCELEN) => rresult.close # "Ok"

\* C10: with any positive number of trailing bytes removed, write or close
\* returns an error and close never returns Ok.
C10_TruncationFails ==
    (cphase = "closed" /\ Cut > 0) => rresult.close # "Ok"


(***************************************************************************)
(* Claims about the handshake, checked under SpecAuth.                     *)
(***************************************************************************)
\* The proof a ServerAuth must carry for this client: HMAC(K, Cc) with
\* K derived from the verifier the message itself carries.
ExpectedServerProof(m) ==
    <<"hmac", <<"hmac", <<"argon2id", m.verifier, authConn.passphrase>>, m.verifier>>,
      authConn.challenge>>

\* The proof a ClientAuth must carry: HMAC(grant.key, Cs).
ExpectedClientProof == <<"hmac", Grant.key, authServ.challenge>>

ClientGotBadServerProof ==
    /\ Len(rcvd["client"]) >= 1
    /\ rcvd["client"][1].type = "ServerAuth"
    /\ rcvd["client"][1].err = ""
    /\ rcvd["client"][1].proof # ExpectedServerProof(rcvd["client"][1])

ServerGotBadClientProof ==
    /\ Len(rcvd["server"]) >= 2
    /\ rcvd["server"][1].type = "Hello"
    /\ rcvd["server"][1].node_name = Grant.node_name
    /\ rcvd["server"][2].type = "ClientAuth"
    /\ rcvd["server"][2].err = ""
    /\ rcvd["server"][2].proof # ExpectedClientProof

\* C1: a ServerAuth whose proof differs from HMAC(K, Cc) makes the client's
\* secure_stream fail with Unauthorized, a ClientAuth whose proof differs from
\* HMAC(grant.key, Cs) makes the server's secure_stream fail with Unauthorized,
\* and the verifying side never constructs a StreamConn.
C1_BadProofUnauthorized ==
    /\ ClientGotBadServerProof =>
          /\ authConn.result = "RemoteError(Unauthorized)"
          /\ conn["client"] = NoConn
    /\ ServerGotBadClientProof =>
          /\ authServ.result = "RemoteError(Unauthorized)"
          /\ conn["server"] = NoConn

\* C1 witness: the attacker substituted the client's proof in flight, the
\* server verified it and has returned.
C1_Witness ==
    /\ tampered = 1
    /\ ServerGotBadClientProof
    /\ sent["client"][2].type = "ClientAuth"
    /\ sent["client"][2].proof = ExpectedClientProof
    /\ authServ.pc = "done"
    /\ authServ.result = "RemoteError(Unauthorized)"

\* The case of C2: an honest network, a client the server has a grant for,
\* and a passphrase that is not the grant's.
WrongPassphrase ==
    /\ authConn.node_name = Grant.node_name
    /\ authConn.passphrase # "good"
    /\ tampered = 0

IsPrefix(s, t) == Len(s) <= Len(t) /\ SubSeq(t, 1, Len(s)) = s

WrongPassphraseClientFrames ==
    <<Hello(authConn.node_name, authConn.challenge, authConn.nonce),
      ClientAuthErr("AccessDenied")>>

WrongPassphraseServerFrames ==
    <<ServerAuthOk(Grant.verifier, authServ.challenge,
                   <<"hmac", Grant.key, authConn.challenge>>)>>

\* C2 as stated: with a wrong passphrase the client sends
\* ClientAuth(Err AccessDenied) and fails with Unauthorized, the server's
\* secure_stream fails with Unauthorized too, and neither side writes
\* anything after the handshake messages.
C2_AsStated ==
    WrongPassphrase =>
        /\ IsPrefix(sent["client"], WrongPassphraseClientFrames)
        /\ IsPrefix(sent["server"], WrongPassphraseServerFrames)
        /\ authConn.pc = "done" =>
              /\ authConn.result = "RemoteError(Unauthorized)"
              /\ sent["client"] = WrongPassphraseClientFrames
        /\ authServ.pc = "done" => authServ.result = "RemoteError(Unauthorized)"

\* C2 amended: as stated, except that the server's secure_stream fails with
\* the AccessDenied error carried by the client's ClientAuth (it never
\* reaches its own proof check); no StreamConn exists on either side.
C2_WrongPassphrase ==
    WrongPassphrase =>
        /\ IsPrefix(sent["client"], WrongPassphraseClientFrames)
        /\ IsPrefix(sent["server"], WrongPassphraseServerFrames)
        /\ conn["client"] = NoConn
        /\ conn["server"] = NoConn
        /\ authConn.pc = "done" =>
              /\ authConn.result = "RemoteError(Unauthorized)"
              /\ sent["client"] = WrongPassphraseClientFrames
        /\ authServ.pc = "done" =>
              /\ authServ.result = "RemoteError(AccessDenied)"
              /\ sent["server"] = WrongPassphraseServerFrames

\* C2 witness: both secure_stream calls have returned in the wrong-passphrase case.
C2_Witness ==
    /\ WrongPassphrase
    /\ authConn.pc = "done"
    /\ authServ.pc = "done"
    /\ rcvd["server"][2] = ClientAuthErr("AccessDenied")

ServerGotUnknownHello ==
    /\ Len(rcvd["server"]) >= 1
    /\ rcvd["server"][1].type = "Hello"
    /\ \A i \in 1..Len(auth_storage) :
          auth_storage[i].node_name # rcvd["server"][1].node_name

\* C3: a Hello naming a node without a grant makes the server reply
\* ServerAuth(Err AccessDenied) and nothing else, fail with Unauthorized and
\* never construct the Idle StreamConn.
C3_UnknownNode ==
    ServerGotUnknownHello =>
        /\ sent["server"] = <<ServerAuthErr("AccessDenied")>>
        /\ authServ.pc = "done"
        /\ authServ.result = "RemoteError(Unauthorized)"
        /\ conn["server"] = NoConn

\* C3 witness: node "X" said Hello, the server refused and the client has
\* read the refusal.
C3_Witness ==
    /\ ServerGotUnknownHello
    /\ authConn.node_name = "X"
    /\ authConn.result = "RemoteError(AccessDenied)"

(***************************************************************************)
(* Claims about illegal messages, checked under SpecSession.               *)
(***************************************************************************)
\* The message type each receive of the handshake permits.
PermittedByClient == IF authConn.pc = "recv_server_auth" THEN "ServerAuth" ELSE "Encrypt"
PermittedByServer == IF authServ.pc = "recv_hello" THEN "Hello" ELSE "ClientAuth"

\* This step is a recv_message of the client / the server in its handshake
\* that returns a message of a type the receive does not permit.
ClientRecvIllegal ==
    /\ authConn.pc \in {"recv_server_auth", "recv_encrypt"}
    /\ s2c # <<>>
    /\ s2c' = Tail(s2c)
    /\ Head(s2c).type # PermittedByClient

ServerRecvIllegal ==
    /\ authServ.pc \in {"recv_hello", "recv_client_auth"}
    /\ c2s # <<>>
    /\ c2s' = Tail(c2s)
    /\ Head(c2s).type # PermittedByServer

\* This step is a recv_message of endpoint e on its StreamConn that returns
\* the frame at the head of its channel.
RecvStep(e) ==
    /\ chan[e] # <<>>
    /\ chan'[e] = Tail(chan[e])
    /\ decrypts(aead[e], Head(chan[e]))

IdleRecvIllegal(e) ==
    /\ sess[e].pc = "meta_recv"
    /\ RecvStep(e)
    /\ Head(chan[e]).msg.type # "SyncInfo"

ActiveRecvIllegal(e) ==
    /\ rx[e].pc = "recv"
    /\ RecvStep(e)
    /\ Head(chan[e]).msg.type \notin {"Replicate", "Stream", "Chunk", "End", "Done", "Error"}

\* The side has written exactly one more handshake message, and it carries
\* IllegalTransition.
RepliedIllegal(s) ==
    /\ Len(sent'[s]) = Len(sent[s]) + 1
    /\ sent'[s][Len(sent'[s])].err = "IllegalTransition"

\* Thread t of e has sealed one more frame, an Error(IllegalTransition).
SealedIllegal(e, t) ==
    /\ pend'[e][t].msg.type = "Error"
    /\ pend'[e][t].msg.err = "IllegalTransition"
    /\ pend'[e][t].seq = aead[e].enc
    /\ aead'[e].enc = aead[e].enc + 1

C4_Step ==
    /\ ClientRecvIllegal =>
          /\ RepliedIllegal("client")
          /\ authConn'.pc = "done"
          /\ authConn'.result = "IllegalTransition"
          /\ conn'["client"] = NoConn
    /\ ServerRecvIllegal =>
          /\ RepliedIllegal("server")
          /\ authServ'.pc = "done"
          /\ authServ'.result = "IllegalTransition"
          /\ conn'["server"] = NoConn
    /\ \A e \in Sides :
          /\ IdleRecvIllegal(e) =>
                /\ SealedIllegal(e, "main")
                /\ sess'[e].pc = "done"
                /\ sess'[e].result = "IllegalTransition"
          /\ ActiveRecvIllegal(e) =>
                /\ SealedIllegal(e, "rx")
                /\ rx'[e].pc = "done"
                /\ rx'[e].result = "IllegalTransition"

\* The receive thread that met an illegal message stays ended, its reply is
\* written by it and by no one else, and data_sync does not return Ok.
C4_Terminated ==
    \A e \in Sides :
        rx[e].result = "IllegalTransition" =>
            /\ rx[e].pc = "done"
            /\ sess[e].result # "Ok"

RecvStoredReplicate(e) ==
    /\ rx[e].pc = "recv"
    /\ RecvStep(e)
    /\ Head(chan[e]).msg.type = "Replicate"
    /\ exists(fs[node_of(e)], backup_path(Head(chan[e]).msg.snapshot))

RepliedStreamErr(e, err) ==
    /\ pend'[e]["rx"].msg = Stream(err)
    /\ pend'[e]["rx"].seq = aead[e].enc

\* No file was created, truncated, written or renamed, and no accept is
\* under way.
Untouched(e) == fs' = fs /\ rx'[e].pc # "create" /\ rx'[e].stream = rx[e].stream

\* C7 as stated: every such Replicate is answered Stream(Err Immutable).
C7_AsStated ==
    [][\A e \in Sides : RecvStoredReplicate(e) =>
            RepliedStreamErr(e, "Immutable") /\ Untouched(e)]_vars

\* The volume of the snapshot is one the receiver accepts from this peer.
Permitted(e, s) == \E v \in rx_volumes(e) : is_of_volume(s, v) /\ v.node_name # node_of(e)

\* C7 (amended): a Replicate for a snapshot whose backup_path exists never
\* creates or truncates a .part file and leaves every file unchanged; if no
\* sink is open and the volume is one the receiver accepts from the peer, the
\* accept callback returns Immutable, the reply is Stream(Err Immutable) and
\* the receive thread ends with Immutable.  With a sink open the reply is
\* Stream(Err AlreadyStreaming), for any other volume Stream(Err AccessDenied).
C7_Immutable ==
    [][\A e \in Sides : RecvStoredReplicate(e) =>
            LET s == Head(chan[e]).msg.snapshot
            IN  /\ Untouched(e)
                /\ IF rx[e].stream.open THEN RepliedStreamErr(e, "AlreadyStreaming")
                   ELSE IF ~Permitted(e, s) THEN RepliedStreamErr(e, "AccessDenied")
                   ELSE /\ RepliedStreamErr(e, "Immutable")
                        /\ rx'[e].result = "RemoteError(Immutable)"]_vars

\* C7 witness: the client, following the protocol, offered sA1, which node B
\* already stores; the server answered Immutable and its directory is as it
\* was.
C7_Witness ==
    /\ ~injected
    /\ rx["server"].result = "RemoteError(Immutable)"
    /\ pend["server"]["rx"].msg = Stream("Immutable")
    /\ fs["B"] = DirWith(<<sA1>>)

(***************************************************************************)
(* Claims about a session of two peers that follow the protocol, checked   *)
(* under SpecSync.                                                         *)
(***************************************************************************)
\* data_sync has returned Ok on both sides.
BothOk == \A e \in Sides : sess[e].pc = "done" /\ sess[e].result = "Ok"

\* C5 as stated: after its one Done a side receives no frame of any kind.
C5_AsStated ==
    BothOk => \A e \in Sides : hist[e].dones = 1 /\ hist[e].post = {}

\* C5 (amended): if data_sync returns Ok on both sides, each side has
\* received exactly one Done, and after it no Replicate, Chunk, End, Done or
\* Error; the only frames that may follow the peer's Done are the peer's
\* Stream answers to the side's own Replicate.
C5_OneDone ==
    BothOk => \A e \in Sides : hist[e].dones = 1 /\ hist[e].post \subseteq {"Stream"}

\* C5 witness: both sides returned Ok, and the server, whose peer had
\* nothing to send, got the answer to its Replicate after the client's Done.
C5_Witness ==
    /\ BothOk
    /\ hist["server"].dones = 1
    /\ hist["server"].post = {"Stream"}
    /\ hist["client"].post = {}
    /\ hist["client"].accepted = {sB1}

\* C6: if data_sync returns Ok on both sides, no .part file is left on
\* either node, and every snapshot whose Replicate was accepted is stored
\* under its backup_path.
C6_NoPartLeft ==
    BothOk =>
        \A e \in Sides :
            /\ \A s \in Snapshots : ~exists(fs[node_of(e)], streaming_path(s))
            /\ \A s \in hist[e].accepted : exists(fs[node_of(e)], backup_path(s))
            /\ ~rx[e].stream.open

\* C6 witness: both sides returned Ok after the server accepted and
\* finalized two snapshots and the client one.
C6_Witness ==
    /\ BothOk
    /\ hist["server"].accepted = {sA1, sA2}
    /\ hist["client"].accepted = {sB1}
    /\ exists(fs["B"], backup_path(sA1))
    /\ exists(fs["B"], backup_path(sA2))
    /\ exists(fs["A"], backup_path(sB1))

(***************************************************************************)
(* Claims about handler threads that store the same snapshot, checked      *)
(* under SpecServe.                                                        *)
(***************************************************************************)
\* What the file at path p holds.
content(d, p) == d.data[d.dir[p]]

\* In this step every backup that is stored on node n stays stored with the
\* content it has.
FinalizedKept(n) ==
    \A s \in Snapshots :
        exists(fs[n], backup_path(s)) =>
            /\ exists(fs'[n], backup_path(s))
            /\ content(fs'[n], backup_path(s)) = content(fs[n], backup_path(s))

\* C8: whatever the interleaving of the handler threads that receive the
\* same snapshot, a backup that is stored under its backup_path is never
\* replaced and its content never changes, and a Replicate for it that
\* arrives afterwards is answered Stream(Err Immutable).
C8_NeverOverwritten ==
    [][/\ FinalizedKept("B")
       /\ \A e \in {"server", "server2"} :
             (RecvStoredReplicate(e) /\ ~rx[e].stream.open) =>
                 RepliedStreamErr(e, "Immutable")]_vars

(***************************************************************************)
(* Claims about the catalogue, checked under SpecCatalogue.                *)
(***************************************************************************)
\* C11: on every reachable catalogue, every incremental snapshot s that
\* all_incremental_after(v, T) returns has a parent: parent_of(s) succeeds
\* and returns a snapshot taken strictly before s.
C11_ParentExists ==
    \A T \in 0..MaxTime :
        \A s \in all_after(LocalNode("A"), VolA, TRUE, T).val :
            /\ parent_of(LocalNode("A"), s).err = ""
            /\ parent_of(LocalNode("A"), s).val.taken < s.taken

\* The tips latest_snapshots reports on node n for volume v.
Tips(n, v) == latest_snapshots_of(LocalNode(n), v).val

\* C12: a step that is no deletion never lowers a tip that latest_snapshots
\* reports, on either node, for either kind.
C12_TipsNeverDecrease ==
    [][(\E s \in Snapshots : delete("A", s))
       \/ \A n \in {"A", "B"} :
             /\ Tips(n, VolA).last_full <= Tips(n, VolA)'.last_full
             /\ Tips(n, VolA).last_incremental <= Tips(n, VolA)'.last_incremental]_vars

\* C12 witness: node A has taken a full and a later incremental snapshot, and
\* node B has finalized an incremental backup older than one it already held
\* and has left the reception of a full one unfinished.
C12_Witness ==
    /\ Tips("A", VolA) = [last_full |-> 1, last_incremental |-> 2]
    /\ Tips("B", VolA) = [last_full |-> 0, last_incremental |-> 3]
    /\ exists(fs["B"], backup_path(sA2))
    /\ exists(fs["B"], streaming_path(sA1))

(***************************************************************************)
(* Claims about names, checked under SpecNames.                            *)
(***************************************************************************)
\* A name the claim speaks of: not empty and without the separator.
Plain(name) == name # <<>> /\ \A i \in 1..Len(name) : name[i] # "_"

\* C13: for every snapshot and volume whose node name and subvolume name are
\* not empty and hold no '_', parsing the printed form, or a path made of
\* any directory and the printed form, returns an equal value.
C13_RoundTrip ==
    LET s == call.arg[1]
    IN  (call.op # "" /\ Plain(s.node_name) /\ Plain(s.subvol)) =>
            call.out[1] = Res("", IF call.op = "Volume::try_from(&str)"
                                  THEN Volume(s.node_name, s.subvol) ELSE s)

(***************************************************************************)
(* Claims about the transmit batches, checked under SpecPlan.              *)
(***************************************************************************)
\* C14: the batch sync queues holds exactly the local snapshots whose volume
\* is in the peer's SyncInfo and in the push list and that were taken
\* strictly after the peer's tip of their kind; none at or before the tip.
C14_ClientBatch ==
    (call.op = "sync" /\ call.out[1].err = "") =>
        LET info == call.arg[1]
            cli == call.arg[2]
        IN  call.out[1].val =
                {s \in snaps["A"] :
                    \E v \in DOMAIN info :
                        /\ is_of_volume(s, v)
                        /\ v = VolA /\ (cli = {} \/ v \in cli)
                        /\ s.taken > (IF s.is_incremental THEN info[v].last_incremental
                                       ELSE info[v].last_full)}

\* C14 witness: node A holds a full and two incremental snapshots, the peer
\* presents the tips (1, 2), and only the incremental snapshot of second 3
\* is queued.
C14_Witness ==
    /\ call.op = "sync"
    /\ snaps["A"] = {sA1, sA2, Snapshot("A", "home", TRUE, 3)}
    /\ call.arg[1] = [v \in {VolA} |-> [last_full |-> 1, last_incremental |-> 2]]
    /\ call.out[1] = Res("", {Snapshot("A", "home", TRUE, 3)})

\* The full backups node B holds of volume v.
FullBackups(v) == {s \in all_backups(fs["B"], v) : ~s.is_incremental}

\* C16: when the peer presents the tips (MIN, MIN) for a volume it owns and
\* the server holds a full backup of it, the server queues exactly its
\* latest full backup of the volume and every incremental backup of the
\* volume taken strictly after that one.
C16_RestoreBatch ==
    (/\ call.op = "handle_client"
     /\ call.arg[1] = [v \in {VolA} |-> [last_full |-> 0, last_incremental |-> 0]]
     /\ FullBackups(VolA) # {}) =>
        /\ call.out[1].err = ""
        /\ call.out[1].val =
              {s \in all_backups(fs["B"], VolA) :
                  IF s.is_incremental THEN s.taken > MaxTaken(FullBackups(VolA))
                  ELSE s.taken = MaxTaken(FullBackups(VolA))}

\* C16 witness: the server holds the full backups of seconds 1 and 2 and the
\* incremental ones of seconds 2 and 3; it queues the full backup of second
\* 2 and the incremental one of second 3.
C16_Witness ==
    /\ call.op = "handle_client"
    /\ call.arg[1] = [v \in {VolA} |-> [last_full |-> 0, last_incremental |-> 0]]
    /\ all_backups(fs["B"], VolA) = {sA1, sA2, Snapshot("A", "home", FALSE, 2),
                                      Snapshot("A", "home", TRUE, 3)}
    /\ call.out[1] = Res("", {Snapshot("A", "home", FALSE, 2),
                              Snapshot("A", "home", TRUE, 3)})

(***************************************************************************)
(* Claims about a push session, checked under SpecPush.                    *)
(***************************************************************************)
\* The tips of volume v that node B presented in meta_sync.
TipsBefore(v) == call.arg[1][v]

\* C15: after a session in which A pushes its volume to B and data_sync has
\* returned Ok on both sides, B holds a finalized backup, with the bytes A
\* sent, of every snapshot A had queued, and B's latest_snapshots of the
\* volume equal A's if A's tips were at least B's before the session.
C15_PushDelivers ==
    (call.op = "sync" /\ BothOk) =>
        /\ \A s \in call.out[1].val :
              /\ exists(fs["B"], backup_path(s))
              /\ content(fs["B"], backup_path(s)) = <<<<"client", 0>>>>
              /\ ~exists(fs["B"], streaming_path(s))
        /\ (/\ Tips("A", VolA).last_full >= TipsBefore(VolA).last_full
            /\ Tips("A", VolA).last_incremental >= TipsBefore(VolA).last_incremental)
                => Tips("B", VolA) = Tips("A", VolA)

\* C15 witness: B held the full backup of second 1, A had queued its
\* incremental snapshots of seconds 2 and 3, both sides have returned Ok and
\* B's tips are (1, 3).
C15_Witness ==
    /\ call.op = "sync"
    /\ BothOk
    /\ TipsBefore(VolA) = [last_full |-> 1, last_incremental |-> 0]
    /\ call.out[1].val = {sA2, Snapshot("A", "home", TRUE, 3)}
    /\ Tips("B", VolA) = [last_full |-> 1, last_incremental |-> 3]
    /\ Tips("A", VolA) = [last_full |-> 1, last_incremental |-> 3]

(***************************************************************************)
(* Claims about the threads of data_sync, checked under SpecSync.          *)
(***************************************************************************)
\* The receive thread of e has ended on a Stream(Err ..) of the peer: these
\* errors reach e in no other message.
StreamRefused(e) ==
    rx[e].result \in {RemoteError(err) : err \in {"Immutable", "AccessDenied",
                                                   "AlreadyStreaming"}}

\* The transmit thread of e enters send_message in this step.
TxSends(e) == pend[e]["tx"] = NoFrame /\ pend'[e]["tx"] # NoFrame

\* C17: once the peer has answered a Replicate with Stream(Err e), the
\* transmit thread sends no further frame, neither Chunk nor End nor
\* Replicate, and a data_sync that returns after it returns the error e.
C17_AbortOnStreamErr ==
    [][\A e \in Sides :
          StreamRefused(e) =>
              /\ ~TxSends(e)
              /\ sess'[e].pc = "done" => sess'[e].result = rx[e].result]_vars

(***************************************************************************)
(* Claims about the termination of data_sync, checked under SpecDuplex.    *)
(***************************************************************************)
\* C18: with finite batches, accepts and finalizes that succeed, a transport
\* that delivers every frame and threads that are scheduled fairly, both
\* data_sync calls eventually return Ok, also when both sides transmit.
C18_BothReturnOk == <>BothOk

(***************************************************************************)
(* Claims about a failing thread of data_sync, checked under SpecRefuse.   *)
(***************************************************************************)
\* The errors with which the threads that data_sync spawned have ended.
ThreadErrors(e) ==
    {r \in {tx[e].result, rx[e].result} : r \notin {"Ok", "running"}}

\* C19: if the transmit thread or the receive thread of data_sync fails,
\* data_sync eventually returns the error of a failed thread; it never
\* waits forever for the other thread.
C19_FailureReturns ==
    \A e \in Sides :
        (ThreadErrors(e) # {}) ~> (sess[e].pc = "done" /\ sess[e].result \in ThreadErrors(e))

(***************************************************************************)
(* Claims about restore, checked under SpecRestore.                        *)
(***************************************************************************)
\* C20: when the sink is a RecoveryStream and opening the final chunk has
\* failed, the snapshot is not reported as received, the receive thread
\* has sent an Error to the peer and has ended with an error, and a
\* data_sync that has returned has returned an error.
C20_FinalChunkFatal ==
    rresult.close = "Err" =>
        /\ "Received" \notin {call.out[i] : i \in DOMAIN call.out}
        /\ rx["client"].result \notin {"Ok", "running"}
        /\ \/ pend["client"]["rx"].msg.type = "Error"
           \/ \E i \in DOMAIN chan["server"] : chan["server"][i].msg.type = "Error"
        /\ sess["client"].pc = "done" => sess["client"].result # "Ok"

(***************************************************************************)
(* Claims about a failing reader, checked under SpecReadFail.              *)
(***************************************************************************)
\* C21: in the step in which the transmit thread ends with the error of a
\* failed read, it sends an End(Err ..) frame for the item.
C21_EndErrOnReadError ==
    [][\A e \in Sides :
          (tx[e].result = "running" /\ tx'[e].result = "Io") =>
              /\ pend'[e]["tx"].msg.type = "End"
              /\ pend'[e]["tx"].msg.err # Ok]_vars

\* Thread t of e enters send_message with a message of the given type.
Seals(e, t, type) ==
    pend[e][t] = NoFrame /\ pend'[e][t] # NoFrame /\ pend'[e][t].msg.type = type

\* C22: the frames of the transmit side of e form (Replicate Chunk* End)*
\* Done.  A Replicate is sent only by the transmit thread at the head of
\* its loop, when the item before it has ended; Chunk and End only inside
\* an item; the three never by another thread and never once Done was sent.
\* Done is sent only by the supervising loop, only once, only when the
\* transmit thread has returned Ok with its batch used up and its last
\* frame written.  The peer receives at most one Done and after it no
\* Replicate, Chunk, End or Done.
C22_TxGrammar ==
    [][\A e \in Sides :
          /\ \A t \in Threads :
                /\ Seals(e, t, "Replicate") =>
                      t = "tx" /\ tx[e].pc = "next" /\ tx[e].pos = 0 /\ ~local_done[e]
                /\ (Seals(e, t, "Chunk") \/ Seals(e, t, "End")) =>
                      t = "tx" /\ tx[e].pc = "chunk" /\ ~local_done[e]
                /\ Seals(e, t, "End") => tx'[e].pc = "next" /\ tx'[e].pos = 0
                /\ Seals(e, t, "Done") =>
                      /\ t = "main"
                      /\ ~local_done[e] /\ local_done'[e]
                      /\ tx[e].pc = "done" /\ tx[e].result = "Ok" /\ tx[e].batch = <<>>
                      /\ pend[e]["tx"] = NoFrame
          /\ local_done[e] => local_done'[e]
          /\ hist'[e].dones <= 1
          /\ hist'[e].post \cap {"Replicate", "Chunk", "End", "Done"} = {}]_vars

\* C22 witness: the server has received Replicate, Chunk and End of two
\* snapshots and then the one Done of the client, and both sides returned Ok.
C22_Witness ==
    /\ BothOk
    /\ hist["server"].accepted = {sA1, sA2}
    /\ hist["server"].dones = 1
    /\ exists(fs["B"], backup_path(sA1)) /\ exists(fs["B"], backup_path(sA2))

(***************************************************************************)
(* Claims about frames that arrive out of place, checked under             *)
(* SpecSession.                                                            *)
(***************************************************************************)
\* This step is the receive thread of e taking in a message of the given
\* type while its sink is open (open = TRUE) or while it has none.
RecvWithSink(e, type, open) ==
    /\ rx[e].pc = "recv"
    /\ RecvStep(e)
    /\ Head(chan[e]).msg.type = type
    /\ rx[e].stream.open = open

\* The receive thread goes on receiving.
Continues(e) == rx'[e].pc = "recv" /\ rx'[e].result = "running"

\* C23: a Replicate that arrives while a sink is open is answered
\* Stream(Err AlreadyStreaming); rx_setup is not called, no file is touched,
\* the open sink and its snapshot stay as they are and the receive thread
\* goes on.
C23_AlreadyStreaming ==
    [][\A e \in Sides : RecvWithSink(e, "Replicate", TRUE) =>
            /\ RepliedStreamErr(e, "AlreadyStreaming")
            /\ Untouched(e)
            /\ hist'[e].accepted = hist[e].accepted
            /\ Continues(e)]_vars

\* C23 witness: the server is receiving sA1, has answered a second
\* Replicate with AlreadyStreaming and is receiving on.
C23_Witness ==
    /\ rx["server"].stream.open
    /\ rx["server"].stream.snapshot = sA1
    /\ pend["server"]["rx"].msg = Stream("AlreadyStreaming")
    /\ rx["server"].pc = "recv"
    /\ rx["server"].result = "running"

\* C24: a Chunk that arrives while no sink is open is answered
\* Error(NotStreaming); nothing is written, no sink is opened and the
\* receive thread goes on receiving.
C24_NotStreaming ==
    [][\A e \in Sides : RecvWithSink(e, "Chunk", FALSE) =>
            /\ pend'[e]["rx"].msg = Error("NotStreaming")
            /\ pend'[e]["rx"].seq = aead[e].enc
            /\ Untouched(e)
            /\ Continues(e)]_vars

\* C24 witness: after the Done of the client, with no sink open, the server
\* has received a Chunk, has answered NotStreaming and is receiving on.
C24_Witness ==
    /\ hist["server"].post = {"Chunk"}
    /\ ~rx["server"].stream.open
    /\ pend["server"]["rx"].msg = Error("NotStreaming")
    /\ rx["server"].pc = "recv"
    /\ rx["server"].result = "running"

(***************************************************************************)
(* Claims about receptions that are cut off, checked under SpecAbort.      *)
(***************************************************************************)
\* C25: the entry of a backup_path changes only in a step in which a
\* receive thread of that node takes in End(Ok) while its sink is open for
\* that snapshot, which its rx_setup accepted earlier in the session; no
\* other step (End(Err), Error, a failing write, the loss of the connection,
\* the return of data_sync) renames a .part file into place.
C25_RenameOnlyOnEndOk ==
    [][\A n \in {"A", "B"}, s \in Snapshots :
          fs'[n].dir[backup_path(s)] # fs[n].dir[backup_path(s)] =>
              \E e \in Sides :
                  /\ node_of(e) = n
                  /\ RecvWithSink(e, "End", TRUE)
                  /\ Head(chan[e]).msg.err = Ok
                  /\ rx[e].stream.snapshot = s
                  /\ s \in hist[e].accepted]_vars

\* C25 witness: node B has finalized sA1 on its End(Ok); its reception of
\* sA2 was cut off, data_sync has returned the error, and sA2 is left as a
\* .part file.
C25_Witness ==
    /\ exists(fs["B"], backup_path(sA1))
    /\ hist["server"].accepted = {sA1, sA2}
    /\ sess["server"].pc = "done"
    /\ sess["server"].result # "Ok"
    /\ exists(fs["B"], streaming_path(sA2))
    /\ ~exists(fs["B"], backup_path(sA2))

(***************************************************************************)
(* Claims about receptions and the catalogue, checked under                *)
(* SpecCatalogue.                                                          *)
(***************************************************************************)
\* The snapshots node n is receiving or has ceased to receive: a .part
\* file and no backup file.
InFlight(n) ==
    {s \in Snapshots : exists(fs[n], streaming_path(s)) /\ ~exists(fs[n], backup_path(s))}

\* What node B shows of volume VolA: all_backups, latest_snapshots and the
\* SyncInfo its hbakd would send in meta_sync.
Shown ==
    <<all_backups(fs["B"], VolA), Tips("B", VolA), local_sync_info("server")>>

\* C26: a snapshot in flight is in no all_backups, the tips of
\* latest_snapshots and of the SyncInfo sent in meta_sync are those of the
\* finalized backups alone, and none of the three changes in a step other
\* than an rx_finish.
C26_PartNeverSurfaces ==
    [][/\ Shown' # Shown => \E s \in Received : Finalize("server", s)
       /\ (InFlight("B") \cap all_backups(fs["B"], VolA) = {})'
       /\ \A s \in InFlight("B")' :
             LET tips == local_sync_info("server")'[VolA]
                 tip == IF s.is_incremental THEN tips.last_incremental ELSE tips.last_full
             IN  /\ tips = Tips("B", VolA)'
                 /\ tip # s.taken]_vars

\* C26 witness: node B has finalized sA1 and is receiving the incremental
\* snapshots of seconds 2 and 3; it shows sA1 alone and the tips (1, MIN).
C26_Witness ==
    /\ InFlight("B") = {sA2, Snapshot("A", "home", TRUE, 3)}
    /\ all_backups(fs["B"], VolA) = {sA1}
    /\ local_sync_info("server")[VolA] = [last_full |-> 1, last_incremental |-> 0]

(***************************************************************************)
(* Claims about the receive thread at the end of the stream, checked under *)
(* SpecAbort.                                                              *)
(***************************************************************************)
\* The receive thread of e leaves its loop in this step having read no frame.
RxLeavesIdle(e) ==
    /\ rx[e].pc = "recv"
    /\ rx'[e].pc = "done"
    /\ chan[e] = <<>>

\* C27: a receive thread that leaves its loop having read no frame returns
\* Ok if local_done and remote_done are both set; otherwise the peer has
\* closed the connection and it fails with UnexpectedEof.  A read that
\* times out never ends the thread.
C27_EofAndTimeout ==
    [][\A e \in Sides :
         RxLeavesIdle(e) =>
           IF local_done[e] /\ rx[e].remote_done
           THEN rx'[e].result = "Ok"
           ELSE /\ closed(peer_of(e))
                /\ rx'[e].result = "Bincode(Io(UnexpectedEof))"]_vars

\* C27 witness: the server has seen the client's Done, has not sent all of
\* its own, and its receive thread has failed on the end of file.
C27_Witness ==
    /\ rx["server"].result = "Bincode(Io(UnexpectedEof))"
    /\ rx["server"].remote_done
    /\ ~local_done["server"]
    /\ closed("client")

(***************************************************************************)
(* Claims about meta_sync, checked under SpecMeta.                         *)
(***************************************************************************)
\* meta_sync of e has returned the Active connection and the SyncInfo of
\* the peer.
Active(e) ==
    /\ sess[e].pc \notin {"meta_send", "meta_recv"}
    /\ sess[e].remote_sync_info = local_sync_info(peer_of(e))

\* C28: client and server both call meta_sync, and in the end both calls
\* have returned an Active connection with the SyncInfo of the peer.
C28_BothComplete == <>(\A e \in Sides : Active(e))

(***************************************************************************)
(* Claims about what the server transmits, checked under SpecPlan.         *)
(***************************************************************************)
\* C29: every snapshot the server queues for the peer A is of a volume that
\* the SyncInfo of A names and that is in the pull list of the grant or is
\* a volume of A, whatever that SyncInfo is.
C29_QueuedVolumes ==
    call.op = "handle_client" =>
        \A s \in call.out[1].val :
            \E v \in DOMAIN call.arg[1] :
                /\ is_of_volume(s, v)
                /\ v = VolB \/ v.node_name = "A"

\* C29 witness: the server holds backups of A and of a third node X, the
\* peer A names every volume, and the server queues its own snapshot and the
\* backup of A but not the backup of X.
C29_Witness ==
    /\ call.op = "handle_client"
    /\ all_backups(fs["B"], VolX) = {sX1}
    /\ DOMAIN call.arg[1] = {VolA, VolB, VolX}
    /\ call.out[1] = Res("", {sA1, sB1})

(***************************************************************************)
(* Claims about the accept callback of the server, checked under           *)
(* SpecSession.  The grant lets node A push its volume home, and the       *)
(* server is node B.                                                       *)
(***************************************************************************)
\* The snapshot is of the volume the grant lets the peer push.
Pushable(s) == s.node_name = "A" /\ s.subvol = "home"

C31_IncrementalsAfter ==
    (call.op = "handle_client" /\ VolA \in DOMAIN call.arg[1]) =>
        \A s \in call.out[1].val :
            (s.is_incremental /\ is_of_volume(s, VolA)) =>
                /\ s.taken > call.arg[1][VolA].last_full
                /\ s.taken > call.arg[1][VolA].last_incremental
                /\ \A f \in FullBackups(VolA) : s.taken > f.taken

\* C31 witness: the server holds the full backups of seconds 1 and 2 and the
\* incremental ones of seconds 2 and 3, the peer has the full backup of
\* second 2, and the server queues the incremental backup of second 3 alone.
C31_Witness ==
    /\ call.op = "handle_client"
    /\ call.arg[1] = [v \in {VolA} |-> [last_full |-> 2, last_incremental |-> 0]]
    /\ all_backups(fs["B"], VolA) = {sA1, sA2, Snapshot("A", "home", FALSE, 2),
                                      Snapshot("A", "home", TRUE, 3)}
    /\ call.out[1] = Res("", {Snapshot("A", "home", TRUE, 3)})

(***************************************************************************)
(* Claims about the snapshots of a node, checked under SpecPlan.           *)
(***************************************************************************)
\* The snapshots node A holds of the subvolume of child that are older than
\* child, full ones or incremental ones.
Older(child, incr) ==
    {s \in snaps["A"] : /\ s.subvol = child.subvol
                        /\ s.is_incremental = incr
                        /\ s.taken < child.taken}

\* C32: parent_of(child) on a subvolume of the node fails with
\* NoFullSnapshot exactly when no full snapshot of the subvolume is older
\* than child; otherwise it returns a snapshot of the subvolume older than
\* child that no other older snapshot of the subvolume is younger than.
C32_ParentOf ==
    (call.op = "parent_of" /\ call.arg[1].subvol = "home") =>
        LET child == call.arg[1]
            out == call.out[1]
        IN  /\ out.err = "NoFullSnapshot" <=> Older(child, FALSE) = {}
            /\ out.err \in {"", "NoFullSnapshot"}
            /\ out.err = "" =>
                  /\ out.val \in Older(child, FALSE) \cup Older(child, TRUE)
                  /\ \A s \in Older(child, FALSE) \cup Older(child, TRUE) :
                        s.taken <= out.val.taken

\* C32 witness: node A holds the full snapshot of second 1 and the
\* incremental ones of seconds 2 and 3; the parent of the incremental
\* snapshot of second 3 is the incremental one of second 2.
C32_Witness ==
    /\ call.op = "parent_of"
    /\ snaps["A"] = {sA1, sA2, Snapshot("A", "home", TRUE, 3)}
    /\ call.arg[1] = Snapshot("A", "home", TRUE, 3)
    /\ call.out[1] = Res("", sA2)

(***************************************************************************)
(* Claims about the scan of the snapshot directory, checked under          *)
(* SpecScan.                                                               *)
(***************************************************************************)
\* The entries of the scanned directory that are no snapshot names.
Unparseable == {name \in call.arg[1] : Snapshot_try_from(name).err # ""}

\* C33: all_snapshots fails with ForeignSubvolume when the filter names a
\* subvolume the node does not own, otherwise with the parse error of an
\* entry if one does not parse, and otherwise returns only snapshots that
\* carry the name of the node and, under a filter, the subvolume of the
\* filter.
C33_AllSnapshots ==
    call.op = "all_snapshots" =>
        LET subvol == call.arg[2]
            out == call.out[1]
        IN  IF subvol.err = "" /\ subvol.val \notin ScanSubvols
            THEN out.err = "ForeignSubvolume"
            ELSE IF Unparseable # {}
            THEN out.err \in {Snapshot_try_from(name).err : name \in Unparseable}
            ELSE /\ out.err = ""
                 /\ \A s \in out.val :
                       /\ s.node_name = <<"A">>
                       /\ subvol.err = "" => s.subvol = subvol.val

(***************************************************************************)
(* Claims about the chunks the RecoveryStream opens, checked under         *)
(* SpecCrypto.                                                             *)
(***************************************************************************)
\* The chunks the SnapshotStream has sealed: one tag each.
SealedChunks ==
    Cardinality({i \in DOMAIN wire : wire[i].kind = "tag" /\ wire[i].idx = 1})

\* C34: while the writes succeed, the chunks opened with decrypt_next are
\* the buffered ciphertext chunks that one more byte has followed, and at
\* most one chunk and its tag stay buffered; and when the whole ciphertext
\* of k >= 1 sealed chunks has been written, in whatever pieces, k - 1
\* chunks have been opened with decrypt_next and close opens the last one
\* with decrypt_last and succeeds.
C34_NextAndLast ==
    [][/\ (cphase' = "feed" /\ rstream'.cipher # NoCipher /\ rresult'.write # "Err") =>
             /\ Len(rstream'.buf) \in 1..(TAGLEN + CHUNKSIZE)
             /\ fed' - NONCELEN = rstream'.cipher * (TAGLEN + CHUNKSIZE) + Len(rstream'.buf)
       /\ (cphase = "feed" /\ cphase' = "closed" /\ input = wire /\ SealedChunks >= 1) =>
             /\ rstream.cipher = SealedChunks - 1
             /\ rresult'.close = "Ok"
             /\ rstream'.cipher = NoCipher
             /\ rstream'.inner = plain]_vars

\* C34 witness: the ciphertext of two full chunks has been written whole;
\* the first chunk was opened with decrypt_next and the second, of full
\* size with its tag, is buffered until close.
C34_Witness ==
    /\ cphase = "feed"
    /\ SealedChunks = 2
    /\ input = wire
    /\ fed = Len(input)
    /\ rresult.write = "Ok"
    /\ rstream.cipher = 1
    /\ Len(rstream.buf) = TAGLEN + CHUNKSIZE

(***************************************************************************)
(* Claims about the daemon, checked under SpecDaemon.                      *)
(***************************************************************************)
\* C35: the client_threads counter is the number of handler threads that
\* are running, serve accepts no connection after it has seen should_exit,
\* and serve has returned only if no handler thread is running.
C35_ServeWaits ==
    /\ daemon.client_threads = Cardinality(Running)
    /\ daemon.pc = "drain" => daemon.should_exit
    /\ daemon.pc = "returned" => Running = {}

\* C36: restore of a subvolume the node does not own fails with
\* ForeignSubvolume and has created, deleted and modified nothing.
C36_OwnershipFirst ==
    (call.op = "restore" /\ ~owns_subvol("A", call.arg[1])) =>
        /\ call.out[1].err = "ForeignSubvolume"
        /\ call.out[1].val = <<>>

\* C37: the frames on their way to an endpoint lie in the order in which
\* the peer's encryptor sealed them, and no receive thread has failed to
\* decrypt a frame.
C37_SealOrder ==
    \A e \in Sides :
        /\ \A i, j \in DOMAIN chan[e] : i < j => chan[e][i].seq < chan[e][j].seq
        /\ rx[e].result # "ChaCha20Poly1305"

(***************************************************************************)
(* Claims about the reading half of a StreamConn, checked under SpecRecv.  *)
(***************************************************************************)
\* The bytes of the frames from..to that the peer has written.
RECURSIVE BytesOf(_, _)
BytesOf(from, to) ==
    IF from > to THEN <<>>
    ELSE FrameBytes(from, stream_read.frames[from]) \o BytesOf(from + 1, to)

\* C38: timeouts lose and reorder no bytes: what recv_message has not yet
\* delivered is, byte for byte, the frames after the delivered ones; the
\* frames are delivered in send order, the counter of the decryptor is the
\* number of delivered frames, and no frame fails to decrypt.
C38_TimeoutKeepsBoundary ==
    /\ stream_read.part \o stream_read.avail \o stream_read.net
          = BytesOf(Len(stream_read.delivered) + 1, Len(stream_read.frames))
    /\ stream_read.delivered = [i \in 1..Len(stream_read.delivered) |-> i]
    /\ stream_read.dec = Len(stream_read.delivered)
    /\ stream_read.result # "ChaCha20Poly1305"

(***************************************************************************)
(* Claims about repeated push sessions, checked under SpecRetry.           *)
(***************************************************************************)
\* C39: when the last of a sequence of push sessions, the earlier of which
\* may have failed at any item, has ended Ok, B holds a finalized backup
\* of every snapshot that A holds of the volume.
C39_CleanSessionCompletes ==
    (call.op = "" /\ call.out # <<>> /\ call.out[Len(call.out)] = "Ok") =>
        \A s \in snaps["A"] :
            is_of_volume(s, VolA) => exists(fs["B"], backup_path(s))

(***************************************************************************)
(* Claims about the cipher state after the handshake, checked under        *)
(* SpecAuth.                                                               *)
(***************************************************************************)
\* C40: when both secure_stream calls of a connection have returned Ok, the
\* two StreamConns have been constructed with the same key, the key of the
\* grant for the node name of the client, and with the same nonce, the one
\* the client has put into its Hello.
C40_SameKeyAndNonce ==
    (authConn.result = "Ok" /\ authServ.result = "Ok") =>
        /\ conn["client"].init /\ conn["server"].init
        /\ conn["client"].key = conn["server"].key
        /\ FindAuth(authConn.node_name) # <<>>
        /\ conn["server"].key = FindAuth(authConn.node_name)[1].key
        /\ conn["client"].nonce = conn["server"].nonce
        /\ conn["server"].nonce = sent["client"][1].nonce

=============================================================================
